---- MODULE Spec2Model ----
(***************************************************************************)
(* Model of the synchronisation service: the job lock of                   *)
(* app/services/scheduler_service.py (job_wrapper, load_and_schedule_jobs) *)
(* with the operator routes of app/routes.py that touch it, and the        *)
(* versioned-record repository of app/services/db_repositories.py          *)
(* (find_work_units, finalize_work_unit) with the inspect actions of       *)
(* app/services/inspect_service.py.                                        *)
(***************************************************************************)
EXTENDS Integers, Sequences, FiniteSets, TLC

\* ------------------------------------------------------------------ bounds
NumJobs == 2
NumRunners == 2
MaxRows == 2
NumKeys == 2
\* Log lines a stream can carry besides the lines every manual run logs.
MaxLogLines == 2

Jobs == 1..NumJobs
\* Threads that can execute job_wrapper: APScheduler workers and the threads
\* started by stream_log for a manual trigger.
Runners == 1..NumRunners

NoJob == 0

VARIABLES
    isRunning,              \* JobConfig.is_running, per job_id
    cancellationRequested,  \* JobConfig.cancellation_requested, per job_id
    isEnabled,              \* JobConfig.is_enabled, per job_id
    pc,                     \* position of each runner inside job_wrapper
    runnerJob,              \* job_id argument of each runner's job_wrapper call
    outcome,                \* what job_wrapper logged about the run so far
    lockedAtStart,          \* history: some is_running was set when the process last started
    table,                  \* which repository class the store part models
    rows,                   \* the version rows of that table, in idd order
    minIddFilter,           \* Mapping('MinimumIddFilter', table).asanito_id
    units,                  \* work_units of the run in progress
    cursor,                 \* index in units of the next unit of that run
    discoveredUpTo,         \* history: the table's highest idd when units was computed
    jobName,                \* which entity sync job's run_job the job part follows
    jpc,                    \* position of that run inside run_job
    workUnits,              \* the action of each work unit find_work_units gave the run
    unitIdx,                \* index of the unit the for loop is at
    curAction,              \* the local variable action of the unit being processed
    attempt,                \* the local variable attempt of the retry loop
    requests,               \* history: requests sent to the remote API for the current unit
    finalStatus,            \* history: status each unit was finalized with ("NONE": not finalized)
    cause,                  \* history: what ended the processing of each unit
    failCount,              \* fail_count
    skippedCount,           \* skipped_count
    audit,                  \* status of the last SyncLog entry of the run
    invoiceDealLinks,       \* the rows of dbo.invoice_deal_link
    deals,                  \* the deals the remote API has created, by id
    dealPosts,              \* history: POST Negotiation/AddNew requests sent
    dealCall,               \* history: the last create_deal_for_invoice_item call
    rpc,                    \* position of the run that the run part follows, in run_job
    auditLog,               \* the SyncLog entries (their status) that run has written
    written,                \* history: what each finalize_work_unit call of that run
                            \* wrote to the representative
    remoteWrites,           \* history: write requests that run has sent to the remote API
    spc,                    \* position of the thread of stream_log in run_job_with_streaming_log
    gpc,                    \* position of the generator of stream_log
    logQueue,               \* history: every message put on log_queue, in order
    taken,                  \* how many of them log_queue.get has returned
    events                  \* the server-sent events the generator has yielded

lockVars == <<isRunning, cancellationRequested, isEnabled, pc, runnerJob, outcome,
              lockedAtStart>>

storeVars == <<table, rows, minIddFilter, units, cursor, discoveredUpTo>>

jobVars == <<jobName, jpc, workUnits, unitIdx, curAction, attempt, requests,
             finalStatus, cause, failCount, skippedCount, audit>>

dealVars == <<invoiceDealLinks, deals, dealPosts, dealCall>>

runVars == <<rpc, auditLog, written, remoteWrites>>

streamVars == <<spc, gpc, logQueue, taken, events>>

vars == <<isRunning, cancellationRequested, isEnabled, pc, runnerJob, outcome, lockedAtStart,
          table, rows, minIddFilter, units, cursor, discoveredUpTo,
          jobName, jpc, workUnits, unitIdx, curAction, attempt, requests,
          finalStatus, cause, failCount, skippedCount, audit,
          invoiceDealLinks, deals, dealPosts, dealCall,
          rpc, auditLog, written, remoteWrites,
          spc, gpc, logQueue, taken, events>>

\* ------------------------------------------------------------ job lock

\* SELECT job_id, name FROM job_config WHERE is_running = 1
RunningJobs == {j \in Jobs : isRunning[j]}

\* Runners whose job function (job_func()) is executing.
InBody == {r \in Runners : pc[r] = "body"}

\* load_and_schedule_jobs: JobConfig.query.update({is_running: False,
\* cancellation_requested: False}) for every row, then (re)schedules.
LoadAndScheduleJobs ==
    /\ isRunning' = [j \in Jobs |-> FALSE]
    /\ cancellationRequested' = [j \in Jobs |-> FALSE]

\* A scheduled firing or a manual trigger (run_job_with_streaming_log) calls
\* job_wrapper(job_id, ...); both need the job to be in the scheduler, i.e.
\* enabled at the last load_and_schedule_jobs.
Invoke(r, j) ==
    /\ pc[r] = "idle"
    /\ isEnabled[j]
    /\ pc' = [pc EXCEPT ![r] = "called"]
    /\ runnerJob' = [runnerJob EXCEPT ![r] = j]
    /\ outcome' = [outcome EXCEPT ![r] = "none"]
    /\ UNCHANGED <<isRunning, cancellationRequested, isEnabled>>
    /\ UNCHANGED storeVars
    /\ UNCHANGED jobVars
    /\ UNCHANGED dealVars
    /\ UNCHANGED runVars
    /\ UNCHANGED streamVars
    /\ UNCHANGED lockedAtStart

\* Mutant: the acquiring update sets is_running only.
LockUpdateKeepingCancellation(j) ==
    /\ isRunning' = [isRunning EXCEPT ![j] = TRUE]
    /\ cancellationRequested' = cancellationRequested

\* The update of the acquiring transaction.
LockUpdate(j) ==
    /\ isRunning' = [isRunning EXCEPT ![j] = TRUE]
    /\ cancellationRequested' = [cancellationRequested EXCEPT ![j] = FALSE]

\* Mutant: the lock is taken per job id, not globally.
AcquireLockPerJob(r) ==
    /\ pc[r] = "called"
    /\ ~isRunning[runnerJob[r]]
    /\ LockUpdate(runnerJob[r])
    /\ pc' = [pc EXCEPT ![r] = "body"]
    /\ outcome' = [outcome EXCEPT ![r] = "acquired"]
    /\ UNCHANGED <<isEnabled, runnerJob>>
    /\ UNCHANGED storeVars
    /\ UNCHANGED jobVars
    /\ UNCHANGED dealVars
    /\ UNCHANGED runVars
    /\ UNCHANGED streamVars
    /\ UNCHANGED lockedAtStart

\* Mutant: the lock is taken without looking for a running job.
AcquireLockUnchecked(r) ==
    /\ pc[r] = "called"
    /\ LockUpdate(runnerJob[r])
    /\ pc' = [pc EXCEPT ![r] = "body"]
    /\ outcome' = [outcome EXCEPT ![r] = "acquired"]
    /\ UNCHANGED <<isEnabled, runnerJob>>
    /\ UNCHANGED storeVars
    /\ UNCHANGED jobVars
    /\ UNCHANGED dealVars
    /\ UNCHANGED runVars
    /\ UNCHANGED streamVars
    /\ UNCHANGED lockedAtStart

\* job_wrapper, the acquiring transaction when no job is running.
AcquireLock(r) ==
    /\ pc[r] = "called"
    /\ RunningJobs = {}
    /\ LockUpdate(runnerJob[r])
    /\ pc' = [pc EXCEPT ![r] = "body"]
    /\ outcome' = [outcome EXCEPT ![r] = "acquired"]
    /\ UNCHANGED <<isEnabled, runnerJob>>
    /\ UNCHANGED storeVars
    /\ UNCHANGED jobVars
    /\ UNCHANGED dealVars
    /\ UNCHANGED runVars
    /\ UNCHANGED streamVars
    /\ UNCHANGED lockedAtStart

\* Mutant: the run is turned away after the update statement has reset the
\* cancellation flags.
RejectRunResettingCancellation(r) ==
    /\ pc[r] = "called"
    /\ RunningJobs # {}
    /\ cancellationRequested' = [j \in Jobs |-> FALSE]
    /\ pc' = [pc EXCEPT ![r] = "skipped"]
    /\ outcome' = [outcome EXCEPT ![r] = "blocked"]
    /\ UNCHANGED <<isRunning, isEnabled, runnerJob>>
    /\ UNCHANGED storeVars
    /\ UNCHANGED jobVars
    /\ UNCHANGED dealVars
    /\ UNCHANGED runVars
    /\ UNCHANGED streamVars
    /\ UNCHANGED lockedAtStart

\* job_wrapper, the acquiring transaction when some job is running: warn and
\* return without running the job function.
RejectRun(r) ==
    /\ pc[r] = "called"
    /\ RunningJobs # {}
    /\ pc' = [pc EXCEPT ![r] = "skipped"]
    /\ outcome' = [outcome EXCEPT ![r] = "blocked"]
    /\ UNCHANGED <<isRunning, cancellationRequested, isEnabled, runnerJob>>
    /\ UNCHANGED storeVars
    /\ UNCHANGED jobVars
    /\ UNCHANGED dealVars
    /\ UNCHANGED runVars
    /\ UNCHANGED streamVars
    /\ UNCHANGED lockedAtStart

\* job_func() returns.
BodyReturns(r) ==
    /\ pc[r] = "body"
    /\ pc' = [pc EXCEPT ![r] = "finished"]
    /\ outcome' = [outcome EXCEPT ![r] = "ok"]
    /\ UNCHANGED <<isRunning, cancellationRequested, isEnabled, runnerJob>>
    /\ UNCHANGED storeVars
    /\ UNCHANGED jobVars
    /\ UNCHANGED dealVars
    /\ UNCHANGED runVars
    /\ UNCHANGED streamVars
    /\ UNCHANGED lockedAtStart

\* job_func() raises; the except clause logs it.
BodyRaises(r) ==
    /\ pc[r] = "body"
    /\ pc' = [pc EXCEPT ![r] = "raised"]
    /\ outcome' = [outcome EXCEPT ![r] = "error"]
    /\ UNCHANGED <<isRunning, cancellationRequested, isEnabled, runnerJob>>
    /\ UNCHANGED storeVars
    /\ UNCHANGED jobVars
    /\ UNCHANGED dealVars
    /\ UNCHANGED runVars
    /\ UNCHANGED streamVars
    /\ UNCHANGED lockedAtStart

\* The update of the finally clause.
LockRelease(j) ==
    isRunning' = [isRunning EXCEPT ![j] = FALSE]

\* Mutant: the lock is released after the try block, not in a finally clause,
\* so a run whose job function raised returns with the lock still held.
ReleaseLockOnSuccessOnly(r) ==
    /\ pc[r] \in {"finished", "raised"}
    /\ IF pc[r] = "finished" THEN LockRelease(runnerJob[r]) ELSE UNCHANGED isRunning
    /\ pc' = [pc EXCEPT ![r] = "released"]
    /\ UNCHANGED <<cancellationRequested, isEnabled, runnerJob, outcome>>
    /\ UNCHANGED storeVars
    /\ UNCHANGED jobVars
    /\ UNCHANGED dealVars
    /\ UNCHANGED runVars
    /\ UNCHANGED streamVars
    /\ UNCHANGED lockedAtStart

\* job_wrapper, the finally clause.
ReleaseLock(r) ==
    /\ pc[r] \in {"finished", "raised"}
    /\ LockRelease(runnerJob[r])
    /\ pc' = [pc EXCEPT ![r] = "released"]
    /\ UNCHANGED <<cancellationRequested, isEnabled, runnerJob, outcome>>
    /\ UNCHANGED storeVars
    /\ UNCHANGED jobVars
    /\ UNCHANGED dealVars
    /\ UNCHANGED runVars
    /\ UNCHANGED streamVars
    /\ UNCHANGED lockedAtStart

\* job_wrapper has returned; the runner is free again.
Return(r) ==
    /\ pc[r] \in {"skipped", "released"}
    /\ pc' = [pc EXCEPT ![r] = "idle"]
    /\ runnerJob' = [runnerJob EXCEPT ![r] = NoJob]
    /\ outcome' = [outcome EXCEPT ![r] = "none"]
    /\ UNCHANGED <<isRunning, cancellationRequested, isEnabled>>
    /\ UNCHANGED storeVars
    /\ UNCHANGED jobVars
    /\ UNCHANGED dealVars
    /\ UNCHANGED runVars
    /\ UNCHANGED streamVars
    /\ UNCHANGED lockedAtStart

\* routes.terminate_job: the flag is set when the job's row has is_running
\* set; otherwise the request only shows a warning.
TerminateJob(j) ==
    /\ IF isRunning[j]
       THEN cancellationRequested' = [cancellationRequested EXCEPT ![j] = TRUE]
       ELSE UNCHANGED cancellationRequested
    /\ UNCHANGED <<isRunning, isEnabled, pc, runnerJob, outcome>>
    /\ UNCHANGED storeVars
    /\ UNCHANGED jobVars
    /\ UNCHANGED dealVars
    /\ UNCHANGED runVars
    /\ UNCHANGED streamVars
    /\ UNCHANGED lockedAtStart

\* routes.toggle_enable_job
ToggleEnableJob(j) ==
    /\ isEnabled' = [isEnabled EXCEPT ![j] = ~isEnabled[j]]
    /\ LoadAndScheduleJobs
    /\ UNCHANGED <<pc, runnerJob, outcome>>
    /\ UNCHANGED storeVars
    /\ UNCHANGED jobVars
    /\ UNCHANGED dealVars
    /\ UNCHANGED runVars
    /\ UNCHANGED streamVars
    /\ UNCHANGED lockedAtStart

\* routes.reschedule_jobs, and routes.update_schedule of an enabled job
RescheduleJobs ==
    /\ LoadAndScheduleJobs
    /\ UNCHANGED <<isEnabled, pc, runnerJob, outcome>>
    /\ UNCHANGED storeVars
    /\ UNCHANGED jobVars
    /\ UNCHANGED dealVars
    /\ UNCHANGED runVars
    /\ UNCHANGED streamVars
    /\ UNCHANGED lockedAtStart

\* Mutant: a start of the process that leaves the job_config flags as it
\* finds them.
ProcessRestartKeepingFlags ==
    /\ pc' = [r \in Runners |-> "idle"]
    /\ runnerJob' = [r \in Runners |-> NoJob]
    /\ outcome' = [r \in Runners |-> "none"]
    /\ lockedAtStart' = (RunningJobs # {})
    /\ UNCHANGED <<isRunning, cancellationRequested, isEnabled>>
    /\ UNCHANGED storeVars
    /\ UNCHANGED jobVars
    /\ UNCHANGED dealVars
    /\ UNCHANGED runVars
    /\ UNCHANGED streamVars

\* The process dies (its threads with it) and create_app runs again.
ProcessRestart ==
    /\ LoadAndScheduleJobs
    /\ pc' = [r \in Runners |-> "idle"]
    /\ runnerJob' = [r \in Runners |-> NoJob]
    /\ outcome' = [r \in Runners |-> "none"]
    /\ lockedAtStart' = (RunningJobs # {})
    /\ UNCHANGED isEnabled
    /\ UNCHANGED storeVars
    /\ UNCHANGED jobVars
    /\ UNCHANGED dealVars
    /\ UNCHANGED runVars
    /\ UNCHANGED streamVars

InitLock ==
    /\ isRunning = [j \in Jobs |-> FALSE]
    /\ cancellationRequested = [j \in Jobs |-> FALSE]
    /\ isEnabled = [j \in Jobs |-> TRUE]
    /\ pc = [r \in Runners |-> "idle"]
    /\ runnerJob = [r \in Runners |-> NoJob]
    /\ outcome = [r \in Runners |-> "none"]
    /\ lockedAtStart = FALSE

NextLock ==
    \/ \E r \in Runners, j \in Jobs : Invoke(r, j)
    \/ \E r \in Runners : AcquireLock(r)
    \/ \E r \in Runners : RejectRun(r)
    \/ \E r \in Runners : BodyReturns(r)
    \/ \E r \in Runners : BodyRaises(r)
    \/ \E r \in Runners : ReleaseLock(r)
    \/ \E r \in Runners : Return(r)
    \/ \E j \in Jobs : TerminateJob(j)
    \/ \E j \in Jobs : ToggleEnableJob(j)
    \/ RescheduleJobs
    \/ ProcessRestart

\* ------------------------------------------------------- versioned store

Keys == 1..NumKeys

\* SQL NULL / Python None
Null == "NULL"

\* BaseRepository.find_work_units: batch_size = limit if limit else 200
DefaultBatchSize == 200

SupersededMessage == "Superseded by a newer entry"

\* The repository classes: MembershipRepository has __primary_key__ memberVId
\* and __group_by_key__ personVId; ServiceRepository (like the invoice and
\* receipt repositories) has __primary_key__ = __group_by_key__ = serviceVid.
Tables == {"membership", "service"}

\* The __primary_key__ column of a new version row with idd i of entity k:
\* a fresh memberVId for membership, the entity's serviceVid for service.
PrimaryKeyOf(i, k) == IF table = "membership" THEN NumKeys + i ELSE k

RowIds == 1..Len(rows)

\* Mutant: only rows without a status are pending.
IsPendingNullOnly(r) == r.fetchStatus = Null

\* fetchStatus IS NULL OR fetchStatus = 'SKIPPED'
IsPending(r) == r.fetchStatus = Null \/ r.fetchStatus = "SKIPPED"

\* Python truth value of a remote-id column value
Truthy(a) == a # Null /\ a # ""

\* Mutant: only '0' is treated as a placeholder.
ValidAidZeroOnly(a) == Truthy(a) /\ a \notin {"", "0"}

\* r.get(aid) and str(r.get(aid)) not in ('', '0', '1')
ValidAid(a) == Truthy(a) /\ a \notin {"", "0", "1"}

\* Decimal strings of the numbers the model uses as filter values.
Decimal == <<"1", "2", "3", "4", "5", "6", "7", "8", "9">>

\* str.isdigit()
IsDigit(str) == \E n \in DOMAIN Decimal : Decimal[n] = str

\* int(str), for a digit string
IntOf(str) == CHOOSE n \in DOMAIN Decimal : Decimal[n] = str

\* find_work_units: min_idd_filter_val is set when the mapping exists and
\* is a digit string; any other value is ignored.
HasIddFilter == minIddFilter # Null /\ IsDigit(minIddFilter)

\* Mutant: the queries carry no idd clause.
PassesIddFilterNever(r) == TRUE

\* ... AND idd >= :min_idd, when the filter applies
PassesIddFilter(r) == HasIddFilter => r.idd >= IntOf(minIddFilter)

\* batch_size = limit if limit else 200 (0 stands for an unset limit)
BatchSize(limit) == IF limit # 0 THEN limit ELSE DefaultBatchSize

\* SELECT DISTINCT T1.key ... WHERE EXISTS (T2 same key and pending)
\*   AND T1.idd >= :min_idd
PendingKeyCandidates ==
    {rows[i].gk : i \in {i \in RowIds :
        /\ PassesIddFilter(rows[i])
        /\ \E i2 \in RowIds : rows[i2].gk = rows[i].gk /\ IsPending(rows[i2])}}

\* TOP n ... ORDER BY key
TopKeys(S, n) == {k \in S : Cardinality({k2 \in S : k2 < k}) < n}

PendingKeys(limit) == TopKeys(PendingKeyCandidates, BatchSize(limit))

\* SELECT * ... WHERE key IN (pending_keys) [AND idd >= :min_idd_fetch]
FetchedRows(limit) ==
    {rows[i] : i \in {i \in RowIds :
        rows[i].gk \in PendingKeys(limit) /\ PassesIddFilter(rows[i])}}

\* The orders in which the database may return a result set.
Orderings(S) ==
    {f \in [1..Cardinality(S) -> S] : \A i, j \in 1..Cardinality(S) : f[i] = f[j] => i = j}

\* Mutant: the sort key lacks the idd.
SortKeyLessKeyOnly(a, b) == a.gk < b.gk

\* sort key (r[key] or '', -(r['idd'] or 0)), compared as Python tuples
SortKeyLess(a, b) == a.gk < b.gk \/ (a.gk = b.gk /\ (0 - a.idd) < (0 - b.idd))

\* One insertion of a stable sort: x goes after every element not above it.
InsertSorted(s, x) ==
    LET p == Cardinality({i \in 1..Len(s) : ~SortKeyLess(x, s[i])})
    IN  SubSeq(s, 1, p) \o <<x>> \o SubSeq(s, p + 1, Len(s))

\* list.sort(key=...): stable
RECURSIVE SortRecords(_)
SortRecords(s) ==
    IF s = <<>> THEN <<>>
    ELSE InsertSorted(SortRecords(SubSeq(s, 1, Len(s) - 1)), s[Len(s)])

\* Mutant: every record is a group of its own.
GroupByEach(s) == [i \in 1..Len(s) |-> <<s[i]>>]

\* itertools.groupby: maximal runs of consecutive records with equal key
RECURSIVE GroupBy(_)
GroupBy(s) ==
    IF s = <<>> THEN <<>>
    ELSE LET n == CHOOSE n \in 1..Len(s) :
                    /\ \A i \in 1..n : s[i].gk = s[1].gk
                    /\ n = Len(s) \/ s[n + 1].gk # s[1].gk
         IN  <<SubSeq(s, 1, n)>> \o GroupBy(SubSeq(s, n + 1, Len(s)))

\* Mutant: the newest record of the group is taken whatever its status.
NewestRecordIndex(g) ==
    IF \E i \in 1..Len(g) : IsPending(g[i]) THEN 1 ELSE 0

\* next((r for r in group_records if <pending>), None), as an index (0 for None)
LatestPendingIndex(g) ==
    IF \E i \in 1..Len(g) : IsPending(g[i])
    THEN CHOOSE i \in 1..Len(g) : IsPending(g[i]) /\ \A j \in 1..(i - 1) : ~IsPending(g[j])
    ELSE 0

\* next((r.get(aid) for r in group_records if <valid aid>), None), as an index
AsanitoIdIndex(g) ==
    IF \E i \in 1..Len(g) : ValidAid(g[i].aid)
    THEN CHOOSE i \in 1..Len(g) : ValidAid(g[i].aid) /\ \A j \in 1..(i - 1) : ~ValidAid(g[j].aid)
    ELSE 0

\* The work unit of one group of records (the loop body of find_work_units);
\* <<>> when the group has no pending record.
WorkUnitsOfGroup(g) ==
    LET latest == LatestPendingIndex(g)
        found  == AsanitoIdIndex(g)
        asanito_id_found == IF found = 0 THEN Null ELSE g[found].aid
    IN  IF latest = 0 THEN <<>>
        ELSE <<[action           |-> IF Truthy(asanito_id_found) THEN "UPDATE" ELSE "CREATE",
                asanito_id       |-> asanito_id_found,
                new_data_row     |-> g[latest],
                all_pks_in_group |-> [i \in 1..Len(g) |-> g[i].pk]]>>

RECURSIVE WorkUnitsOfGroups(_)
WorkUnitsOfGroups(gs) ==
    IF gs = <<>> THEN <<>>
    ELSE WorkUnitsOfGroup(gs[1]) \o WorkUnitsOfGroups(SubSeq(gs, 2, Len(gs)))

\* find_work_units on a result set returned in the order ord
WorkUnits(ord) == WorkUnitsOfGroups(GroupBy(SortRecords(ord)))

\* The source system appends a version row of entity k (idd is IDENTITY(1,1)).
InsertVersion(k, a) ==
    /\ Len(rows) < MaxRows
    /\ rows' = Append(rows, [idd |-> Len(rows) + 1, gk |-> k,
                             pk |-> PrimaryKeyOf(Len(rows) + 1, k),
                             fetchStatus |-> Null, fetchMessage |-> Null, aid |-> a])
    /\ UNCHANGED <<table, minIddFilter, units, cursor, discoveredUpTo>>
    /\ UNCHANGED lockVars
    /\ UNCHANGED jobVars
    /\ UNCHANGED dealVars
    /\ UNCHANGED runVars
    /\ UNCHANGED streamVars

\* No run is between its find_work_units call and the end of its unit loop.
NoRunInProgress == units = <<>>

\* mapping_service.save_mappings('MinimumIddFilter', ...): an empty value
\* deletes the mapping. Only find_work_units reads the mapping, so a change
\* during a unit loop acts like the same change made right after the loop.
SetMinIddFilter(v) ==
    /\ NoRunInProgress
    /\ minIddFilter' = v
    /\ UNCHANGED <<table, rows, units, cursor, discoveredUpTo>>
    /\ UNCHANGED lockVars
    /\ UNCHANGED jobVars
    /\ UNCHANGED dealVars
    /\ UNCHANGED runVars
    /\ UNCHANGED streamVars

\* A job calls find_work_units(limit) at the start of its unit loop.
FindWorkUnits(limit) ==
    /\ NoRunInProgress
    /\ \E ord \in Orderings(FetchedRows(limit)) : units' = WorkUnits(ord)
    /\ cursor' = 1
    /\ discoveredUpTo' = IF units' = <<>> THEN 0 ELSE Len(rows)
    /\ UNCHANGED <<table, rows, minIddFilter>>
    /\ UNCHANGED lockVars
    /\ UNCHANGED jobVars
    /\ UNCHANGED dealVars
    /\ UNCHANGED runVars
    /\ UNCHANGED streamVars

\* finalize_work_unit: final_asanito_id
FinalAsanitoId(unit, asanito_id) ==
    IF asanito_id # Null THEN asanito_id ELSE unit.asanito_id

\* finalize_work_unit, status = 'SKIPPED':
\* UPDATE ... SET fetchStatus, fetchMessage WHERE pk = :processed_pk
SkippedUpdate(unit, message) ==
    [i \in RowIds |->
        IF rows[i].pk = unit.new_data_row.pk
        THEN [rows[i] EXCEPT !.fetchStatus = "SKIPPED", !.fetchMessage = message]
        ELSE rows[i]]

SkippedRowCount(unit) ==
    Cardinality({i \in RowIds : rows[i].pk = unit.new_data_row.pk})

PksOf(unit) == {unit.all_pks_in_group[i] : i \in 1..Len(unit.all_pks_in_group)}

\* Mutant: the processed row is looked up again at each call, as the newest
\* row of the unit that is still pending.
TerminalUpdateRederived(unit, status, asanito_id, message) ==
    LET pending == {i \in RowIds : rows[i].pk \in PksOf(unit) /\ IsPending(rows[i])}
    IN  [i \in RowIds |->
            IF rows[i].pk \in PksOf(unit)
            THEN IF i \in pending /\ \A j \in pending : j <= i
                 THEN [rows[i] EXCEPT !.fetchStatus = status, !.fetchMessage = message,
                                      !.aid = FinalAsanitoId(unit, asanito_id)]
                 ELSE [rows[i] EXCEPT !.fetchStatus = "SUPERSEDED",
                                      !.fetchMessage = SupersededMessage]
            ELSE rows[i]]

\* finalize_work_unit, any other status:
\* UPDATE ... SET fetchStatus = CASE WHEN pk = :processed_pk ... WHERE pk IN (...)
TerminalUpdate(unit, status, asanito_id, message) ==
    [i \in RowIds |->
        IF rows[i].pk \in PksOf(unit)
        THEN IF rows[i].pk = unit.new_data_row.pk
             THEN [rows[i] EXCEPT !.fetchStatus = status, !.fetchMessage = message,
                                  !.aid = FinalAsanitoId(unit, asanito_id)]
             ELSE [rows[i] EXCEPT !.fetchStatus = "SUPERSEDED",
                                  !.fetchMessage = SupersededMessage]
        ELSE rows[i]]

TerminalRowCount(unit) == Cardinality({i \in RowIds : rows[i].pk \in PksOf(unit)})

\* The row count finalize_work_unit returns.
FinalizeRowCount(unit, status) ==
    IF status = "SKIPPED" THEN SkippedRowCount(unit)
    ELSE IF PksOf(unit) = {} THEN 0
    ELSE TerminalRowCount(unit)

\* BaseRepository.finalize_work_unit(work_unit, status, asanito_id, message)
FinalizeWorkUnit(unit, status, asanito_id, message) ==
    /\ IF status = "SKIPPED"
       THEN rows' = SkippedUpdate(unit, message)
       ELSE IF PksOf(unit) = {}
       THEN rows' = rows
       ELSE rows' = TerminalUpdate(unit, status, asanito_id, message)
    /\ UNCHANGED <<table, minIddFilter>>
    /\ UNCHANGED lockVars
    /\ UNCHANGED jobVars
    /\ UNCHANGED dealVars
    /\ UNCHANGED runVars
    /\ UNCHANGED streamVars

\* The unit loop moves to the next unit; after the last one the run's
\* work_units list is gone.
AdvanceLoop ==
    IF cursor < Len(units)
    THEN cursor' = cursor + 1 /\ units' = units /\ discoveredUpTo' = discoveredUpTo
    ELSE cursor' = 1 /\ units' = <<>> /\ discoveredUpTo' = 0

\* The id a successful API response carries.
ApiIds == {"42"}

\* The unit loop of a job finalizes the current unit the way the jobs call
\* finalize_work_unit: (unit, 'SYNCED', asanito_id=<id of the response>),
\* (unit, 'FAILED', message=<error>) or (unit, 'SKIPPED', message=<error>).
FinalizeNext(status, asanito_id) ==
    /\ cursor <= Len(units)
    /\ FinalizeWorkUnit(units[cursor], status,
                        IF status = "SYNCED" THEN asanito_id ELSE Null,
                        IF status = "SYNCED" THEN Null ELSE "error")
    /\ AdvanceLoop

\* The unit loop moves on without finalizing the unit (an exception that the
\* job only logs, or a cancelled run).
LeaveUnit ==
    /\ cursor <= Len(units)
    /\ AdvanceLoop
    /\ UNCHANGED <<table, rows, minIddFilter>>
    /\ UNCHANGED lockVars
    /\ UNCHANGED jobVars
    /\ UNCHANGED dealVars
    /\ UNCHANGED runVars
    /\ UNCHANGED streamVars

\* Mutant: a retry also forgets the remote id of the record.
RetryFailedRecordClearingId(pkv) ==
    /\ \E i \in RowIds : rows[i].pk = pkv
    /\ rows' = [i \in RowIds |->
                  IF rows[i].pk = pkv /\ rows[i].fetchStatus = "FAILED"
                  THEN [rows[i] EXCEPT !.fetchStatus = Null,
                                       !.fetchMessage = "Retrying as per user request",
                                       !.aid = Null]
                  ELSE rows[i]]
    /\ UNCHANGED <<table, minIddFilter, units, cursor, discoveredUpTo>>
    /\ UNCHANGED lockVars
    /\ UNCHANGED jobVars
    /\ UNCHANGED dealVars
    /\ UNCHANGED runVars
    /\ UNCHANGED streamVars

\* inspect_service.retry_failed_record
RetryFailedRecord(pkv) ==
    /\ \E i \in RowIds : rows[i].pk = pkv
    /\ rows' = [i \in RowIds |->
                  IF rows[i].pk = pkv /\ rows[i].fetchStatus = "FAILED"
                  THEN [rows[i] EXCEPT !.fetchStatus = Null,
                                       !.fetchMessage = "Retrying as per user request"]
                  ELSE rows[i]]
    /\ UNCHANGED <<table, minIddFilter, units, cursor, discoveredUpTo>>
    /\ UNCHANGED lockVars
    /\ UNCHANGED jobVars
    /\ UNCHANGED dealVars
    /\ UNCHANGED runVars
    /\ UNCHANGED streamVars

\* inspect_service.ignore_skipped_record
IgnoreSkippedRecord(pkv) ==
    /\ \E i \in RowIds : rows[i].pk = pkv
    /\ rows' = [i \in RowIds |->
                  IF rows[i].pk = pkv /\ rows[i].fetchStatus = "SKIPPED"
                  THEN [rows[i] EXCEPT !.fetchStatus = "IGNORED",
                                       !.fetchMessage = "Manually ignored by user"]
                  ELSE rows[i]]
    /\ UNCHANGED <<table, minIddFilter, units, cursor, discoveredUpTo>>
    /\ UNCHANGED lockVars
    /\ UNCHANGED jobVars
    /\ UNCHANGED dealVars
    /\ UNCHANGED runVars
    /\ UNCHANGED streamVars

\* Values an operator can save as the filter: cleared, non-numeric, a number.
FilterInputs == {Null, "abc", Decimal[2], Decimal[MaxRows + 1]}

\* JOB_RECORD_LIMIT: unset, or a number
LimitInputs == {0, 1}

\* Remote-id values a version row can arrive with from the source system.
InsertAids == {Null, "", "0", "1", "5"}

AllPks == {rows[i].pk : i \in RowIds}

InitStore ==
    /\ table \in Tables
    /\ rows = <<>>
    /\ minIddFilter = Null
    /\ units = <<>>
    /\ cursor = 1
    /\ discoveredUpTo = 0

NextStore ==
    \/ \E k \in Keys, a \in InsertAids : InsertVersion(k, a)
    \/ \E v \in FilterInputs : SetMinIddFilter(v)
    \/ \E limit \in LimitInputs : FindWorkUnits(limit)
    \/ \E st \in {"SYNCED", "FAILED", "SKIPPED"}, a \in ApiIds : FinalizeNext(st, a)
    \/ LeaveUnit

\* The operator's inspect actions on single records.
NextInspect ==
    \/ \E pkv \in AllPks : RetryFailedRecord(pkv)
    \/ \E pkv \in AllPks : IgnoreSkippedRecord(pkv)

\* inspect_service.retry_all_failed_records
RetryAllFailedRecords ==
    /\ rows' = [i \in RowIds |->
                  IF rows[i].fetchStatus = "FAILED"
                  THEN [rows[i] EXCEPT !.fetchStatus = Null,
                                       !.fetchMessage = "Retrying all as per user request"]
                  ELSE rows[i]]
    /\ UNCHANGED <<table, minIddFilter, units, cursor, discoveredUpTo>>
    /\ UNCHANGED lockVars
    /\ UNCHANGED jobVars
    /\ UNCHANGED dealVars
    /\ UNCHANGED runVars
    /\ UNCHANGED streamVars

\* inspect_service.ignore_all_skipped_records
IgnoreAllSkippedRecords ==
    /\ rows' = [i \in RowIds |->
                  IF rows[i].fetchStatus = "SKIPPED"
                  THEN [rows[i] EXCEPT !.fetchStatus = "IGNORED",
                                       !.fetchMessage = "Manually ignored all by user"]
                  ELSE rows[i]]
    /\ UNCHANGED <<table, minIddFilter, units, cursor, discoveredUpTo>>
    /\ UNCHANGED lockVars
    /\ UNCHANGED jobVars
    /\ UNCHANGED dealVars
    /\ UNCHANGED runVars
    /\ UNCHANGED streamVars

\* The rows of dbo.membership one pass of the de-duplication job can mark:
\* rows without a status (rank > 1 among the rows without a status that share
\* a phone number or a national code); the row of rank 1 of each such group
\* is not among them.
DuplicateSets(candidates) ==
    {D \in SUBSET candidates : D = {} \/ candidates \ D # {}}

DuplicateMessage(by) ==
    IF by = "phone number"
    THEN "Skipped: Marked as a duplicate. A different record with the same phone number has more recent invoice activity."
    ELSE "Skipped: Marked as a duplicate. A different record with the same national code has more recent invoice activity."

\* deduplicate_members_job.run_job: DEDUPE_BY_PHONE_SQL, then
\* DEDUPE_BY_NAT_CODE_SQL on the rows still without a status. Which rows share
\* a phone number or a national code, and their invoice dates, are inputs.
DeduplicateMembers(byPhone, byNatCode) ==
    /\ table = "membership"
    /\ byPhone \in DuplicateSets({i \in RowIds : rows[i].fetchStatus = Null})
    /\ byNatCode \in DuplicateSets({i \in RowIds : rows[i].fetchStatus = Null} \ byPhone)
    /\ rows' = [i \in RowIds |->
                  IF i \in byPhone
                  THEN [rows[i] EXCEPT !.fetchStatus = "SKIPPED",
                                       !.fetchMessage = DuplicateMessage("phone number")]
                  ELSE IF i \in byNatCode
                  THEN [rows[i] EXCEPT !.fetchStatus = "SKIPPED",
                                       !.fetchMessage = DuplicateMessage("national code")]
                  ELSE rows[i]]
    /\ UNCHANGED <<table, minIddFilter, units, cursor, discoveredUpTo>>
    /\ UNCHANGED lockVars
    /\ UNCHANGED jobVars
    /\ UNCHANGED dealVars
    /\ UNCHANGED runVars
    /\ UNCHANGED streamVars

\* The operator's bulk actions and the de-duplication job.
NextMaintenance ==
    \/ RetryAllFailedRecords
    \/ IgnoreAllSkippedRecords
    \/ \E byPhone, byNatCode \in SUBSET RowIds : DeduplicateMembers(byPhone, byNatCode)

\* ------------------------------------------------------- entity sync jobs

MaxUnits == 2

\* The run the job part follows: job_wrapper has acquired the lock for this
\* job on this runner and has called its run_job.
RunJob == 1

RunRunner == 1

\* The jobs of app/jobs that process work units.
EntityJobs == {"products", "contacts", "service_invoices", "store_invoices", "receipts"}

\* Jobs whose unit loop re-reads JobConfig.cancellation_requested.
HasCancellationCheck(job) == job \in {"products", "service_invoices"}

\* Jobs with the retry loop "for attempt in range(2)"; the receipts job
\* always posts to a create-only endpoint.
HasFallback(job) == job # "receipts"

\* Jobs whose payload builder checks that linked entities are synced.
HasDependencyCheck(job) == job \in {"service_invoices", "store_invoices", "receipts"}

\* Jobs that send the invoice status update after a successful write.
HasStatusUpdate(job) == job \in {"service_invoices", "store_invoices"}

\* What the remote call can end in: success with an id, success without an
\* id, 404, another 4xx, 5xx, or a network error (timeout, connection error).
Responses == {"2xx", "noid", "404", "4xx", "5xx", "net"}

ErrorResponses == {"404", "4xx", "5xx", "net"}

\* AsanitoHttpClient._format_error_response: a network error comes back as a
\* response with status 503 or 504.
ClientStatus(resp) == IF resp = "net" THEN "5xx" ELSE resp

\* status_code >= 400 and status_code < 500
IsClientError(resp) == ClientStatus(resp) \in {"404", "4xx"}

\* The except clause that catches ValueError (and ConnectionError).
ValueErrorStatus(job) ==
    IF job \in {"products", "service_invoices"} THEN "FAILED" ELSE "SKIPPED"

\* The handling of an error response to the create or update request.
ApiErrorStatus(job, action, resp) ==
    IF job \in {"products", "service_invoices"} THEN ValueErrorStatus(job)
    ELSE IF job = "contacts" /\ action = "UPDATE" THEN ValueErrorStatus(job)
    ELSE IF IsClientError(resp) THEN "FAILED"
    ELSE ValueErrorStatus(job)

\* The error that ended a unit, as the spec classifies it.
CauseOf(resp) ==
    IF resp = "net" THEN "net"
    ELSE IF resp = "5xx" THEN "5xx"
    ELSE IF resp \in {"404", "4xx"} THEN "4xx"
    ELSE resp

\* The condition under which a failed update is retried as a create: a 404
\* on the first attempt; the contacts job looks for "not found" in the
\* error message instead (notFoundText).
IsStale(job, action, att, resp, notFoundText) ==
    /\ HasFallback(job)
    /\ action = "UPDATE"
    /\ att = 0
    /\ IF job = "contacts" THEN notFoundText ELSE ClientStatus(resp) = "404"

\* Mutant: a stale update is sent again as an update.
FallbackActionRetry == "UPDATE"

\* action = 'CREATE' after a stale update
FallbackAction == "CREATE"

\* Mutant: a run with skipped units is reported as a failure.
AuditStatusCountingSkipped(fails, skipped) ==
    IF fails + skipped > 0 THEN "FAILURE" ELSE "SUCCESS"

\* status = 'FAILURE' if fail_count > 0 else 'SUCCESS'
AuditStatus(fails, skipped) == IF fails > 0 THEN "FAILURE" ELSE "SUCCESS"

\* All sequences of up to MaxUnits work-unit actions.
UnitLists == UNION {[1..n -> {"CREATE", "UPDATE"}] : n \in 0..MaxUnits}

\* run_job up to the for loop: the STARTED entry, find_work_units.
StartRun(job, ws) ==
    /\ jpc = "idle"
    /\ jobName' = job
    /\ workUnits' = ws
    /\ unitIdx' = 1
    /\ curAction' = "none"
    /\ attempt' = 0
    /\ requests' = <<>>
    /\ finalStatus' = [i \in 1..Len(ws) |-> "NONE"]
    /\ cause' = [i \in 1..Len(ws) |-> "none"]
    /\ failCount' = 0
    /\ skippedCount' = 0
    /\ audit' = "STARTED"
    /\ jpc' = IF ws = <<>> THEN "audit" ELSE "loop"
    /\ UNCHANGED lockVars
    /\ UNCHANGED storeVars
    /\ UNCHANGED dealVars
    /\ UNCHANGED runVars
    /\ UNCHANGED streamVars

\* The top of the for loop: the cancellation check, in the jobs that have
\* one, then the unit's action is read.
BeginUnit ==
    /\ jpc = "loop"
    /\ IF HasCancellationCheck(jobName) /\ cancellationRequested[RunJob]
       THEN /\ jpc' = "audit"
            /\ UNCHANGED <<curAction, attempt, requests>>
       ELSE /\ jpc' = "attempt"
            /\ curAction' = IF jobName = "receipts" THEN "CREATE" ELSE workUnits[unitIdx]
            /\ attempt' = 0
            /\ requests' = <<>>
    /\ UNCHANGED <<jobName, workUnits, unitIdx, finalStatus, cause, failCount,
                   skippedCount, audit>>
    /\ UNCHANGED lockVars
    /\ UNCHANGED storeVars
    /\ UNCHANGED dealVars
    /\ UNCHANGED runVars
    /\ UNCHANGED streamVars

\* The unit ends: finalize_work_unit with the status ("NONE": the unit is
\* only logged), the counters, and the loop moves on.
FinishUnit(status, c) ==
    /\ finalStatus' = [finalStatus EXCEPT ![unitIdx] = status]
    /\ cause' = [cause EXCEPT ![unitIdx] = c]
    /\ failCount' = IF status = "FAILED" THEN failCount + 1 ELSE failCount
    /\ skippedCount' = IF status \in {"SKIPPED", "NONE"} THEN skippedCount + 1
                       ELSE skippedCount
    /\ unitIdx' = unitIdx + 1
    /\ jpc' = IF unitIdx < Len(workUnits) THEN "loop" ELSE "audit"
    /\ UNCHANGED <<jobName, workUnits, audit>>

\* Building the payload fails: a linked entity is not synced (ValueError
\* "Dependency not met") or a required mapping is missing
\* (MappingNotFoundError).
PrepareFails(kind) ==
    /\ jpc = "attempt"
    /\ kind = "dep" => HasDependencyCheck(jobName)
    /\ FinishUnit(IF kind = "dep" THEN ValueErrorStatus(jobName) ELSE "SKIPPED", kind)
    /\ UNCHANGED <<curAction, attempt, requests>>
    /\ UNCHANGED lockVars
    /\ UNCHANGED storeVars
    /\ UNCHANGED dealVars
    /\ UNCHANGED runVars
    /\ UNCHANGED streamVars

\* The create or update request of the unit and the handling of its result.
\* more: the contact has custom fields to update (contacts job);
\* notFoundText: the error message contains "not found".
SendWrite(resp, more, notFoundText) ==
    /\ jpc = "attempt"
    /\ resp = "noid" => ~(jobName = "contacts" /\ curAction = "UPDATE")
    /\ requests' = Append(requests, curAction)
    /\ IF resp = "2xx"
       THEN IF HasStatusUpdate(jobName) \/ (jobName = "contacts" /\ curAction = "UPDATE" /\ more)
            THEN /\ jpc' = "ancillary"
                 /\ UNCHANGED <<jobName, workUnits, unitIdx, finalStatus, cause,
                                failCount, skippedCount, audit, curAction, attempt>>
            ELSE /\ FinishUnit("SYNCED", "ok")
                 /\ UNCHANGED <<curAction, attempt>>
       ELSE IF resp = "noid"
       THEN /\ FinishUnit(ValueErrorStatus(jobName), "noid")
            /\ UNCHANGED <<curAction, attempt>>
       ELSE IF IsStale(jobName, curAction, attempt, resp, notFoundText)
       THEN /\ curAction' = FallbackAction
            /\ attempt' = 1
            /\ UNCHANGED <<jobName, jpc, workUnits, unitIdx, finalStatus, cause,
                           failCount, skippedCount, audit>>
       ELSE /\ FinishUnit(ApiErrorStatus(jobName, curAction, resp), CauseOf(resp))
            /\ UNCHANGED <<curAction, attempt>>
    /\ UNCHANGED lockVars
    /\ UNCHANGED storeVars
    /\ UNCHANGED dealVars
    /\ UNCHANGED runVars
    /\ UNCHANGED streamVars

\* The request that follows a successful write: the invoice status update
\* (groupUpdateStatus) of the invoice jobs, the custom-field update of a
\* contact update.
SendAncillary(resp, notFoundText) ==
    /\ jpc = "ancillary"
    /\ resp \in ErrorResponses \cup {"2xx"}
    /\ requests' = Append(requests, "ANCILLARY")
    /\ IF resp = "2xx" \/ jobName = "store_invoices"
       THEN /\ FinishUnit("SYNCED", "ok")
            /\ UNCHANGED <<curAction, attempt>>
       ELSE IF jobName = "contacts" /\ IsStale(jobName, curAction, attempt, resp, notFoundText)
       THEN /\ curAction' = FallbackAction
            /\ attempt' = 1
            /\ jpc' = "attempt"
            /\ UNCHANGED <<jobName, workUnits, unitIdx, finalStatus, cause,
                           failCount, skippedCount, audit>>
       ELSE /\ FinishUnit(ValueErrorStatus(jobName), CauseOf(resp))
            /\ UNCHANGED <<curAction, attempt>>
    /\ UNCHANGED lockVars
    /\ UNCHANGED storeVars
    /\ UNCHANGED dealVars
    /\ UNCHANGED runVars
    /\ UNCHANGED streamVars

\* Processing the unit raises an exception that no except clause of the
\* job names: the last clause, except Exception, logs it and counts the
\* unit as skipped without finalizing it.
UnitRaises ==
    /\ jpc \in {"attempt", "ancillary"}
    /\ ~(jobName = "store_invoices" /\ jpc = "ancillary")
    /\ FinishUnit("NONE", "exc")
    /\ UNCHANGED <<curAction, attempt, requests>>
    /\ UNCHANGED lockVars
    /\ UNCHANGED storeVars
    /\ UNCHANGED dealVars
    /\ UNCHANGED runVars
    /\ UNCHANGED streamVars

\* The final SyncLog entry after the loop.
WriteAudit ==
    /\ jpc = "audit"
    /\ audit' = AuditStatus(failCount, skippedCount)
    /\ jpc' = "done"
    /\ UNCHANGED <<jobName, workUnits, unitIdx, curAction, attempt, requests,
                   finalStatus, cause, failCount, skippedCount>>
    /\ UNCHANGED lockVars
    /\ UNCHANGED storeVars
    /\ UNCHANGED dealVars
    /\ UNCHANGED runVars
    /\ UNCHANGED streamVars

\* An exception leaves the loop: the JobConfig query of the cancellation
\* check raises, finalize_work_unit raises inside the except clause that
\* handles the unit's error (execute_write re-raises the database error), or
\* the commit of the final entry raises. The outer except clause writes a
\* FAILURE entry; when writing it raises too, that is only logged and the
\* last entry stays as it is. (The store-invoices job ignores the result of
\* its status update, so nothing is handled after it.)
RunAborts ==
    /\ \/ jpc \in {"attempt", "audit"}
       \/ jpc = "ancillary" /\ jobName # "store_invoices"
       \/ jpc = "loop" /\ HasCancellationCheck(jobName)
    /\ audit' \in {"FAILURE", audit}
    /\ jpc' = "aborted"
    /\ UNCHANGED <<jobName, workUnits, unitIdx, curAction, attempt, requests,
                   finalStatus, cause, failCount, skippedCount>>
    /\ UNCHANGED lockVars
    /\ UNCHANGED storeVars
    /\ UNCHANGED dealVars
    /\ UNCHANGED runVars
    /\ UNCHANGED streamVars

InitJob ==
    /\ jobName = "none"
    /\ jpc = "idle"
    /\ workUnits = <<>>
    /\ unitIdx = 1
    /\ curAction = "none"
    /\ attempt = 0
    /\ requests = <<>>
    /\ finalStatus = <<>>
    /\ cause = <<>>
    /\ failCount = 0
    /\ skippedCount = 0
    /\ audit = "none"

\* The state of job_config and of the runner when job_wrapper, holding the
\* lock for RunJob, calls run_job.
InitRunning ==
    /\ isRunning = [j \in Jobs |-> j = RunJob]
    /\ cancellationRequested = [j \in Jobs |-> FALSE]
    /\ isEnabled = [j \in Jobs |-> TRUE]
    /\ pc = [r \in Runners |-> IF r = RunRunner THEN "body" ELSE "idle"]
    /\ runnerJob = [r \in Runners |-> IF r = RunRunner THEN RunJob ELSE NoJob]
    /\ outcome = [r \in Runners |-> IF r = RunRunner THEN "acquired" ELSE "none"]
    /\ lockedAtStart = FALSE

NextJob ==
    \/ \E job \in EntityJobs, ws \in UnitLists : StartRun(job, ws)
    \/ BeginUnit
    \/ \E kind \in {"dep", "map"} : PrepareFails(kind)
    \/ \E resp \in Responses, more \in BOOLEAN, notFoundText \in BOOLEAN :
          SendWrite(resp, more, notFoundText)
    \/ \E resp \in Responses, notFoundText \in BOOLEAN : SendAncillary(resp, notFoundText)
    \/ UnitRaises
    \/ WriteAudit
    \/ RunAborts
    \/ TerminateJob(RunJob)

\* ------------------------------------------------------- deal creation

NumInvoices == 2
NumItems == 2
MaxDealPosts == 3

\* Invoice headers (by invoiceVID) and invoice items (by their primary key).
Invoices == 1..NumInvoices
Items == 1..NumItems

\* What DealTriggerProduct.query.get(asanito_product_id) and the read of its
\* funnel_level_id give: no row; a row of the class as app/models.py
\* declares it, which has no funnel_level_id attribute; a row with an empty
\* funnel level; a row with a funnel level.
TriggerConfigs == {"absent", "undeclared", "unset", "set"}

\* What POST Negotiation/AddNew answers: an error response, a success whose
\* data is not a positive integer, a success with the id of the new deal.
DealResponses == {"error", "badid", "ok"}

\* str(invoice_header.get('invoiceVID') or invoice_header.get('id'))
SourceInvoiceId(inv) == Decimal[inv]

\* str(source_item_pk)
SourceItemId(item) == Decimal[item]

\* Mutant: the lookup of an existing link finds nothing.
ExistingLinkIgnored(inv, item) == {}

\* InvoiceDealLink.query.filter_by(source_invoice_vid=..., source_item_pk=...)
ExistingLink(inv, item) ==
    {l \in invoiceDealLinks : /\ l.source_invoice_vid = SourceInvoiceId(inv)
                              /\ l.source_item_pk = SourceItemId(item)}

\* The call returns or raises without changing anything.
DealCallEnds(inv, item, result, sent) ==
    /\ dealCall' = [invoice |-> inv, item |-> item, result |-> result, sent |-> sent]
    /\ UNCHANGED <<invoiceDealLinks, deals>>

\* deal_service.create_deal_for_invoice_item for item `item` of invoice `inv`.
CreateDealForInvoiceItem(inv, item, config, resp) ==
    /\ IF ExistingLink(inv, item) # {}
       THEN DealCallEnds(inv, item, "None", FALSE) /\ UNCHANGED dealPosts
       ELSE IF config = "absent"
       THEN DealCallEnds(inv, item, "None", FALSE) /\ UNCHANGED dealPosts
       ELSE IF config = "undeclared"
       THEN DealCallEnds(inv, item, "raised", FALSE) /\ UNCHANGED dealPosts
       ELSE IF config = "unset"
       THEN DealCallEnds(inv, item, "None", FALSE) /\ UNCHANGED dealPosts
       ELSE /\ dealPosts < MaxDealPosts
            /\ dealPosts' = dealPosts + 1
            /\ IF resp # "ok"
               THEN DealCallEnds(inv, item, "raised", TRUE)
               ELSE /\ deals' = Append(deals, <<inv, item>>)
                    \* _source_invoice_item_uc: a second link of the pair
                    \* makes the commit raise
                    /\ IF \E l \in invoiceDealLinks :
                             /\ l.source_invoice_vid = SourceInvoiceId(inv)
                             /\ l.source_item_pk = SourceItemId(item)
                       THEN /\ dealCall' = [invoice |-> inv, item |-> item,
                                            result |-> "raised", sent |-> TRUE]
                            /\ UNCHANGED invoiceDealLinks
                       ELSE /\ invoiceDealLinks' = invoiceDealLinks \cup
                                   {[source_invoice_vid |-> SourceInvoiceId(inv),
                                     source_item_pk |-> SourceItemId(item),
                                     deal_asanito_id |-> Len(deals) + 1]}
                            /\ dealCall' = [invoice |-> inv, item |-> item,
                                            result |-> "id", sent |-> TRUE]
    /\ UNCHANGED lockVars
    /\ UNCHANGED storeVars
    /\ UNCHANGED jobVars
    /\ UNCHANGED runVars
    /\ UNCHANGED streamVars

InitDeal ==
    /\ invoiceDealLinks = {}
    /\ deals = <<>>
    /\ dealPosts = 0
    /\ dealCall = [invoice |-> 0, item |-> 0, result |-> "none", sent |-> FALSE]

NextDeal ==
    \E inv \in Invoices, item \in Items, config \in TriggerConfigs, resp \in DealResponses :
        CreateDealForInvoiceItem(inv, item, config, resp)

\* ------------------------------------------------- one run over the store

\* run_job of an entity sync job, called by job_wrapper on RunRunner for
\* RunJob, followed over the version rows of the store: the STARTED entry,
\* find_work_units, the unit loop with its finalize_work_unit calls, the
\* final entry, and job_wrapper's release of the lock.

\* finalize_work_unit: the table after the call has committed
RowsAfterFinalize(unit, status, asanito_id, message) ==
    IF status = "SKIPPED" THEN SkippedUpdate(unit, message)
    ELSE IF PksOf(unit) = {} THEN rows
    ELSE TerminalUpdate(unit, status, asanito_id, message)

\* What finalize_work_unit writes to the representative of the unit.
WrittenBy(unit, status, asanito_id, message) ==
    [idd          |-> unit.new_data_row.idd,
     fetchStatus  |-> status,
     fetchMessage |-> message,
     aid          |-> IF status = "SKIPPED" THEN unit.new_data_row.aid
                      ELSE FinalAsanitoId(unit, asanito_id)]

\* fail_count: the units finalized FAILED so far
FailCount == Cardinality({n \in 1..Len(written) : written[n].fetchStatus = "FAILED"})

\* db.session.add(SyncLog(job_id, status='STARTED', ...)); db.session.commit()
\* ahead of the try block: when the commit raises (ok = FALSE), the exception
\* leaves run_job.
RunWritesStarted(ok) ==
    /\ rpc = "called"
    /\ IF ok
       THEN auditLog' = Append(auditLog, "STARTED") /\ rpc' = "started"
       ELSE auditLog' = auditLog /\ rpc' = "raised"
    /\ UNCHANGED <<written, remoteWrites>>
    /\ UNCHANGED lockVars
    /\ UNCHANGED storeVars
    /\ UNCHANGED jobVars
    /\ UNCHANGED dealVars
    /\ UNCHANGED streamVars

\* The try block raises ahead of the loop: AsanitoService() fails, no
\* owner_user_id, or the queries of find_work_units raise.
RunRaisesBeforeLoop ==
    /\ rpc = "started"
    /\ rpc' = "except"
    /\ UNCHANGED <<auditLog, written, remoteWrites>>
    /\ UNCHANGED lockVars
    /\ UNCHANGED storeVars
    /\ UNCHANGED jobVars
    /\ UNCHANGED dealVars
    /\ UNCHANGED streamVars

\* work_units = Repository.find_work_units(limit=record_limit)
RunDiscovers(limit) ==
    /\ rpc = "started"
    /\ \E ord \in Orderings(FetchedRows(limit)) : units' = WorkUnits(ord)
    /\ cursor' = 1
    /\ discoveredUpTo' = IF units' = <<>> THEN 0 ELSE Len(rows)
    /\ rpc' = IF units' = <<>> THEN "final" ELSE "loop"
    /\ UNCHANGED <<table, rows, minIddFilter>>
    /\ UNCHANGED <<auditLog, written, remoteWrites>>
    /\ UNCHANGED lockVars
    /\ UNCHANGED jobVars
    /\ UNCHANGED dealVars
    /\ UNCHANGED streamVars

\* The for loop goes to its next unit, or ends.
RunAdvances ==
    /\ cursor' = cursor + 1
    /\ rpc' = IF cursor < Len(units) THEN "loop" ELSE "final"
    /\ UNCHANGED <<units, discoveredUpTo>>

\* One unit is processed and finalized; execute_write commits the update.
\* sent: a write request went to the remote API (always, for SYNCED).
RunFinalizes(status, asanito_id, sent) ==
    /\ rpc = "loop"
    /\ status = "SYNCED" => sent
    /\ LET unit    == units[cursor]
           id      == IF status = "SYNCED" THEN asanito_id ELSE Null
           message == IF status = "SYNCED" THEN Null ELSE "error"
       IN  /\ rows' = RowsAfterFinalize(unit, status, id, message)
           /\ written' = Append(written, WrittenBy(unit, status, id, message))
    /\ remoteWrites' = IF sent THEN remoteWrites + 1 ELSE remoteWrites
    /\ RunAdvances
    /\ UNCHANGED <<table, minIddFilter, auditLog>>
    /\ UNCHANGED lockVars
    /\ UNCHANGED jobVars
    /\ UNCHANGED dealVars
    /\ UNCHANGED streamVars

\* One unit ends in the last except clause of the loop body (an exception no
\* other clause names, a database error of finalize_work_unit in the try
\* body): the unit is logged and counted as skipped, nothing is written.
RunSkipsUnit(sent) ==
    /\ rpc = "loop"
    /\ remoteWrites' = IF sent THEN remoteWrites + 1 ELSE remoteWrites
    /\ RunAdvances
    /\ UNCHANGED <<table, rows, minIddFilter, auditLog, written>>
    /\ UNCHANGED lockVars
    /\ UNCHANGED jobVars
    /\ UNCHANGED dealVars
    /\ UNCHANGED streamVars

\* Mutant: a cancelled run marks the units it did not process as failed.
RunObservesCancellationMarkingRest ==
    /\ rpc = "loop"
    /\ cancellationRequested[RunJob]
    /\ rpc' = "final"
    /\ rows' = [i \in RowIds |->
                  IF \E n \in cursor..Len(units) : rows[i].pk = units[n].new_data_row.pk
                  THEN [rows[i] EXCEPT !.fetchStatus = "FAILED", !.fetchMessage = "error"]
                  ELSE rows[i]]
    /\ UNCHANGED <<table, minIddFilter, units, cursor, discoveredUpTo>>
    /\ UNCHANGED <<auditLog, written, remoteWrites>>
    /\ UNCHANGED lockVars
    /\ UNCHANGED jobVars
    /\ UNCHANGED dealVars
    /\ UNCHANGED streamVars

\* The cancellation check at the top of the loop (products and service
\* invoices jobs) finds the flag set: break.
RunObservesCancellation ==
    /\ rpc = "loop"
    /\ cancellationRequested[RunJob]
    /\ rpc' = "final"
    /\ UNCHANGED <<auditLog, written, remoteWrites>>
    /\ UNCHANGED lockVars
    /\ UNCHANGED storeVars
    /\ UNCHANGED jobVars
    /\ UNCHANGED dealVars
    /\ UNCHANGED streamVars

\* An exception leaves the loop: finalize_work_unit raises inside an except
\* clause (execute_write has rolled its statement back), or the JobConfig
\* query of the cancellation check raises.
RunRaisesInLoop(sent) ==
    /\ rpc = "loop"
    /\ remoteWrites' = IF sent THEN remoteWrites + 1 ELSE remoteWrites
    /\ rpc' = "except"
    /\ UNCHANGED <<auditLog, written>>
    /\ UNCHANGED lockVars
    /\ UNCHANGED storeVars
    /\ UNCHANGED jobVars
    /\ UNCHANGED dealVars
    /\ UNCHANGED streamVars

\* Mutant: the final entry stays in the log when its commit raises.
RunWritesFinalKeepingEntry(ok) ==
    /\ rpc = "final"
    /\ auditLog' = Append(auditLog, IF FailCount > 0 THEN "FAILURE" ELSE "SUCCESS")
    /\ rpc' = IF ok THEN "returned" ELSE "except"
    /\ UNCHANGED <<written, remoteWrites>>
    /\ UNCHANGED lockVars
    /\ UNCHANGED storeVars
    /\ UNCHANGED jobVars
    /\ UNCHANGED dealVars
    /\ UNCHANGED streamVars

\* The final entry at the end of the try block; when its commit raises, the
\* outer except clause is entered.
RunWritesFinal(ok) ==
    /\ rpc = "final"
    /\ IF ok
       THEN /\ auditLog' = Append(auditLog, IF FailCount > 0 THEN "FAILURE" ELSE "SUCCESS")
            /\ rpc' = "returned"
       ELSE /\ auditLog' = auditLog
            /\ rpc' = "except"
    /\ UNCHANGED <<written, remoteWrites>>
    /\ UNCHANGED lockVars
    /\ UNCHANGED storeVars
    /\ UNCHANGED jobVars
    /\ UNCHANGED dealVars
    /\ UNCHANGED streamVars

\* Mutant: the outer except clause rolls the session back to the start of the
\* run before it writes its entry.
RunWritesFailureRollingBack(ok) ==
    /\ rpc = "except"
    /\ auditLog' = IF ok THEN Append(auditLog, "FAILURE") ELSE auditLog
    /\ rpc' = "returned"
    /\ rows' = [i \in RowIds |->
                  IF \E n \in 1..Len(written) : written[n].idd = i
                  THEN [rows[i] EXCEPT !.fetchStatus = Null, !.fetchMessage = Null]
                  ELSE rows[i]]
    /\ UNCHANGED <<table, minIddFilter, units, cursor, discoveredUpTo>>
    /\ UNCHANGED <<written, remoteWrites>>
    /\ UNCHANGED lockVars
    /\ UNCHANGED jobVars
    /\ UNCHANGED dealVars
    /\ UNCHANGED streamVars

\* The outer except clause: the FAILURE entry; when writing it raises, the
\* inner except clause only logs that. run_job returns.
RunWritesFailure(ok) ==
    /\ rpc = "except"
    /\ auditLog' = IF ok THEN Append(auditLog, "FAILURE") ELSE auditLog
    /\ rpc' = "returned"
    /\ UNCHANGED <<table, rows, minIddFilter, units, cursor, discoveredUpTo>>
    /\ UNCHANGED <<written, remoteWrites>>
    /\ UNCHANGED lockVars
    /\ UNCHANGED jobVars
    /\ UNCHANGED dealVars
    /\ UNCHANGED streamVars

\* job_wrapper: job_func() has returned or raised; then the finally clause.
RunEnds ==
    \/ rpc = "returned" /\ BodyReturns(RunRunner)
    \/ rpc = "raised" /\ BodyRaises(RunRunner)
    \/ ReleaseLock(RunRunner)

InitRun ==
    /\ rpc = "called"
    /\ auditLog = <<>>
    /\ written = <<>>
    /\ remoteWrites = 0

\* The run, with version rows arriving, the operator's filter and the
\* operator's terminate request.
NextRun ==
    \/ \E k \in Keys, a \in InsertAids : InsertVersion(k, a)
    \/ \E v \in FilterInputs : SetMinIddFilter(v)
    \/ TerminateJob(RunJob)
    \/ \E ok \in BOOLEAN : RunWritesStarted(ok)
    \/ RunRaisesBeforeLoop
    \/ \E limit \in LimitInputs : RunDiscovers(limit)
    \/ \E st \in {"SYNCED", "FAILED", "SKIPPED"}, a \in ApiIds, sent \in BOOLEAN :
          RunFinalizes(st, a, sent)
    \/ \E sent \in BOOLEAN : RunSkipsUnit(sent)
    \/ RunObservesCancellation
    \/ \E sent \in BOOLEAN : RunRaisesInLoop(sent)
    \/ \E ok \in BOOLEAN : RunWritesFinal(ok)
    \/ \E ok \in BOOLEAN : RunWritesFailure(ok)
    \/ RunEnds

\* ------------------------------------------------- live log streaming

\* The thread of stream_log calls job_wrapper as this runner, for this job.
StreamRunner == RunRunner

StreamJob == RunJob

EndMarker == "---LOG-END---"

\* A formatted record logged by the thread of the manual run, and one logged
\* by any other thread of the process (the handler is on the root logger).
OwnLine == "record of the run"

OtherLine == "record of another thread"

\* The QueueHandler of the run is among the handlers of the root logger.
HandlerAdded == spc \in {"attached", "calling", "finally", "marked"}

\* The thread that runs run_job_with_streaming_log is alive.
ThreadAlive == spc \notin {"idle", "done"}

\* GET /stream-log/<job_id>: the queue is created, the thread is started and
\* the generator starts reading.
StreamLog ==
    /\ spc = "idle"
    /\ spc' = "started"
    /\ gpc' = "reading"
    /\ UNCHANGED <<logQueue, taken, events>>
    /\ UNCHANGED lockVars
    /\ UNCHANGED storeVars
    /\ UNCHANGED jobVars
    /\ UNCHANGED dealVars
    /\ UNCHANGED runVars

\* root_logger.addHandler(handler)
ThreadAddsHandler ==
    /\ spc = "started"
    /\ spc' = "attached"
    /\ UNCHANGED <<gpc, logQueue, taken, events>>
    /\ UNCHANGED lockVars
    /\ UNCHANGED storeVars
    /\ UNCHANGED jobVars
    /\ UNCHANGED dealVars
    /\ UNCHANGED runVars

\* job = scheduler.get_job(job_id); if job: the thread logs that it triggers
\* the job and goes on to call job.func; a job that is not scheduled is not run.
ThreadGetsJob ==
    /\ spc = "attached"
    /\ IF isEnabled[StreamJob]
       THEN spc' = "calling" /\ logQueue' = Append(logQueue, OwnLine)
       ELSE spc' = "finally" /\ logQueue' = logQueue
    /\ UNCHANGED <<gpc, taken, events>>
    /\ UNCHANGED lockVars
    /\ UNCHANGED storeVars
    /\ UNCHANGED jobVars
    /\ UNCHANGED dealVars
    /\ UNCHANGED runVars

\* job.func(*job.args, **job.kwargs): job_wrapper(job_id, ...) is entered.
ThreadCallsJob ==
    /\ spc = "calling"
    /\ pc[StreamRunner] = "idle"
    /\ Invoke(StreamRunner, StreamJob)

\* QueueHandler.emit for a record that job_wrapper or run_job logs during the
\* call.
ThreadLogs ==
    /\ spc = "calling"
    /\ pc[StreamRunner] # "idle"
    /\ Len(logQueue) < MaxLogLines
    /\ logQueue' = Append(logQueue, OwnLine)
    /\ UNCHANGED <<spc, gpc, taken, events>>
    /\ UNCHANGED lockVars
    /\ UNCHANGED storeVars
    /\ UNCHANGED jobVars
    /\ UNCHANGED dealVars
    /\ UNCHANGED runVars

\* QueueHandler.emit for a record that another thread logs while the handler
\* is on the root logger.
OtherThreadLogs ==
    /\ HandlerAdded
    /\ Len(logQueue) < MaxLogLines
    /\ logQueue' = Append(logQueue, OtherLine)
    /\ UNCHANGED <<spc, gpc, taken, events>>
    /\ UNCHANGED lockVars
    /\ UNCHANGED storeVars
    /\ UNCHANGED jobVars
    /\ UNCHANGED dealVars
    /\ UNCHANGED runVars

\* Mutant: a run that the lock turned away ends the thread at once.
ThreadCallReturnsEndingThread ==
    /\ spc = "calling"
    /\ pc[StreamRunner] \in {"skipped", "released"}
    /\ spc' = IF pc[StreamRunner] = "skipped" THEN "done" ELSE "finally"
    /\ UNCHANGED <<gpc, logQueue, taken, events>>
    /\ UNCHANGED lockVars
    /\ UNCHANGED storeVars
    /\ UNCHANGED jobVars
    /\ UNCHANGED dealVars
    /\ UNCHANGED runVars

\* job.func has returned: the run was turned away by the lock, or its job
\* function returned or raised and the lock was released.
ThreadCallReturns ==
    /\ spc = "calling"
    /\ pc[StreamRunner] \in {"skipped", "released"}
    /\ spc' = "finally"
    /\ UNCHANGED <<gpc, logQueue, taken, events>>
    /\ UNCHANGED lockVars
    /\ UNCHANGED storeVars
    /\ UNCHANGED jobVars
    /\ UNCHANGED dealVars
    /\ UNCHANGED runVars

\* job_wrapper raises ahead of its try block (the acquiring transaction
\* fails): the except clause of the thread logs the exception.
ThreadCatches ==
    /\ spc = "calling"
    /\ pc[StreamRunner] = "called"
    /\ pc' = [pc EXCEPT ![StreamRunner] = "idle"]
    /\ runnerJob' = [runnerJob EXCEPT ![StreamRunner] = NoJob]
    /\ spc' = "finally"
    /\ logQueue' = Append(logQueue, OwnLine)
    /\ UNCHANGED <<isRunning, cancellationRequested, isEnabled, outcome, lockedAtStart>>
    /\ UNCHANGED <<gpc, taken, events>>
    /\ UNCHANGED storeVars
    /\ UNCHANGED jobVars
    /\ UNCHANGED dealVars
    /\ UNCHANGED runVars

\* finally: log_queue.put("---LOG-END---")
ThreadPutsMarker ==
    /\ spc = "finally"
    /\ logQueue' = Append(logQueue, EndMarker)
    /\ spc' = "marked"
    /\ UNCHANGED <<gpc, taken, events>>
    /\ UNCHANGED lockVars
    /\ UNCHANGED storeVars
    /\ UNCHANGED jobVars
    /\ UNCHANGED dealVars
    /\ UNCHANGED runVars

\* finally: root_logger.removeHandler(handler); the thread ends.
ThreadRemovesHandler ==
    /\ spc = "marked"
    /\ spc' = "done"
    /\ UNCHANGED <<gpc, logQueue, taken, events>>
    /\ UNCHANGED lockVars
    /\ UNCHANGED storeVars
    /\ UNCHANGED jobVars
    /\ UNCHANGED dealVars
    /\ UNCHANGED runVars

\* generate: log_queue.get returns a message; the marker ends the loop, any
\* other message is yielded as a data event.
ReaderGets ==
    /\ gpc = "reading"
    /\ taken < Len(logQueue)
    /\ taken' = taken + 1
    /\ IF logQueue[taken + 1] = EndMarker
       THEN gpc' = "joining" /\ events' = events
       ELSE gpc' = "reading"
            /\ events' = Append(events, [event |-> "message", data |-> logQueue[taken + 1]])
    /\ UNCHANGED <<spc, logQueue>>
    /\ UNCHANGED lockVars
    /\ UNCHANGED storeVars
    /\ UNCHANGED jobVars
    /\ UNCHANGED dealVars
    /\ UNCHANGED runVars

\* generate: log_queue.get(timeout=10) raises queue.Empty; the loop ends when
\* the thread is no longer alive.
ReaderTimesOut ==
    /\ gpc = "reading"
    /\ taken = Len(logQueue)
    /\ gpc' = IF ThreadAlive THEN "reading" ELSE "joining"
    /\ UNCHANGED <<spc, logQueue, taken, events>>
    /\ UNCHANGED lockVars
    /\ UNCHANGED storeVars
    /\ UNCHANGED jobVars
    /\ UNCHANGED dealVars
    /\ UNCHANGED runVars

\* final_log.status if final_log else 'UNKNOWN'
FinalStatus == IF auditLog = <<>> THEN "UNKNOWN" ELSE auditLog[Len(auditLog)]

\* generate, after the loop: thread.join() returns once the thread has ended;
\* the status of the job's last SyncLog entry is yielded as the status event.
ReaderEmitsStatus ==
    /\ gpc = "joining"
    /\ ~ThreadAlive
    /\ events' = Append(events, [event |-> "status", data |-> FinalStatus])
    /\ gpc' = "closed"
    /\ UNCHANGED <<spc, logQueue, taken>>
    /\ UNCHANGED lockVars
    /\ UNCHANGED storeVars
    /\ UNCHANGED jobVars
    /\ UNCHANGED dealVars
    /\ UNCHANGED runVars

\* The steps of the manual run inside job_wrapper: the lock, then run_job
\* (over a store without pending rows), then the release.
ThreadInJobWrapper ==
    \/ AcquireLock(StreamRunner)
    \/ RejectRun(StreamRunner)
    \/ pc[StreamRunner] = "body" /\ \E ok \in BOOLEAN : RunWritesStarted(ok)
    \/ RunRaisesBeforeLoop
    \/ \E limit \in LimitInputs : RunDiscovers(limit)
    \/ \E ok \in BOOLEAN : RunWritesFinal(ok)
    \/ \E ok \in BOOLEAN : RunWritesFailure(ok)
    \/ RunEnds

\* A step of the thread of the manual run.
ThreadStep ==
    \/ ThreadAddsHandler
    \/ ThreadGetsJob
    \/ ThreadCallsJob
    \/ ThreadInJobWrapper
    \/ ThreadCallReturns
    \/ ThreadPutsMarker
    \/ ThreadRemovesHandler

\* A step of the generator.
ReaderStep ==
    \/ ReaderGets
    \/ ReaderTimesOut
    \/ ReaderEmitsStatus

\* Runs that the scheduler starts on the other runners.
ScheduledRunStep ==
    \/ \E r \in Runners \ {StreamRunner}, j \in Jobs : Invoke(r, j)
    \/ \E r \in Runners \ {StreamRunner} : AcquireLock(r)
    \/ \E r \in Runners \ {StreamRunner} : RejectRun(r)
    \/ \E r \in Runners \ {StreamRunner} : BodyReturns(r)
    \/ \E r \in Runners \ {StreamRunner} : BodyRaises(r)
    \/ \E r \in Runners \ {StreamRunner} : ReleaseLock(r)
    \/ \E r \in Runners \ {StreamRunner} : Return(r)

InitStream ==
    /\ spc = "idle"
    /\ gpc = "idle"
    /\ logQueue = <<>>
    /\ taken = 0
    /\ events = <<>>

NextStream ==
    \/ StreamLog
    \/ ThreadStep
    \/ ThreadLogs
    \/ ThreadCatches
    \/ OtherThreadLogs
    \/ ReaderStep
    \/ ScheduledRunStep
    \/ spc = "idle" /\ \E j \in Jobs : ToggleEnableJob(j)

Init == InitLock /\ InitStore /\ InitJob /\ InitDeal /\ InitRun /\ InitStream

\* The lock part does not touch the store: one repository is enough.
LockInit == Init /\ table = "membership"

LockSpec == LockInit /\ [][NextLock]_vars

StoreSpec == Init /\ [][NextStore]_vars

\* A version row of dbo.membership as earlier runs leave it: never processed,
\* or finalized FAILED as the representative of a CREATE unit.
LeftRow(i, k, st) ==
    [idd |-> i, gk |-> k, pk |-> NumKeys + i, fetchStatus |-> st,
     fetchMessage |-> IF st = Null THEN Null ELSE "error", aid |-> Null]

\* The membership tables of up to MaxRows + 1 rows that earlier runs can
\* leave: each row can be finalized on its own, whatever the older rows of
\* its group are, by a run under an idd filter equal to its idd.
LeftTables ==
    UNION {{[i \in 1..n |-> LeftRow(i, ks[i], sts[i])] :
               ks \in [1..n -> Keys], sts \in [1..n -> {Null, "FAILED"}]} :
           n \in 0..(MaxRows + 1)}

\* find_work_units and the unit loop on a table that earlier runs have left.
BatchInit ==
    /\ InitLock /\ InitJob /\ InitDeal /\ InitRun /\ InitStream
    /\ table = "membership"
    /\ rows \in LeftTables
    /\ minIddFilter = Null
    /\ units = <<>>
    /\ cursor = 1
    /\ discoveredUpTo = 0

BatchSpec == BatchInit /\ [][NextStore]_vars

\* The store with the operator's retry and ignore actions.
InspectSpec == Init /\ [][NextStore \/ NextInspect]_vars

\* The store with every operation of the system that writes to version rows.
MaintenanceSpec == Init /\ [][NextStore \/ NextInspect \/ NextMaintenance]_vars

\* The unit loop takes its next step: the current unit is finalized.
LoopStep ==
    \E st \in {"SYNCED", "FAILED", "SKIPPED"}, a \in ApiIds : FinalizeNext(st, a)

\* A run with JOB_RECORD_LIMIT set starts.
LimitedRunStarts == \E limit \in LimitInputs \ {0} : FindWorkUnits(limit)

\* ENABLED <<LimitedRunStarts>>_vars, written out: no run is in progress and
\* find_work_units has a unit to return.
StartPossible ==
    /\ NoRunInProgress
    /\ \E limit \in LimitInputs \ {0} : \E ord \in Orderings(FetchedRows(limit)) :
          WorkUnits(ord) # <<>>

\* WF_vars(LimitedRunStarts), with its ENABLED written out: the trigger of the
\* scheduler fires again after every run.
RunsKeepStarting ==
    []<>(~StartPossible) \/ []<><<LimitedRunStarts>>_vars

NextRepeatedRuns ==
    \/ \E k \in Keys, a \in InsertAids : InsertVersion(k, a)
    \/ \E v \in FilterInputs : SetMinIddFilter(v)
    \/ LimitedRunStarts
    \/ LoopStep

\* Runs of one job under a fixed batch size, one after the other for ever: the
\* scheduler's trigger fires again and again, and a unit loop that has started
\* goes on to its end. Every unit gets an outcome (no unit is left to the
\* handler that only logs).
RepeatedRunsSpec ==
    /\ Init
    /\ [][NextRepeatedRuns]_vars
    /\ RunsKeepStarting
    /\ WF_vars(LoopStep)

\* The run of one entity sync job, from the call of run_job on.
JobInit ==
    /\ InitRunning /\ InitStore /\ InitJob /\ InitDeal /\ InitRun /\ InitStream
    /\ table = "membership"

JobSpec == JobInit /\ [][NextJob]_vars

\* One run of an entity sync job over the store, from the call of run_job to
\* the release of the lock.
RunInit == InitRunning /\ InitStore /\ InitJob /\ InitDeal /\ InitRun /\ InitStream

RunSpec == RunInit /\ [][NextRun]_vars

\* One manual trigger with its log stream, beside the scheduler's runs and
\* after the operator's enabling and disabling of jobs: the operating system
\* schedules the thread and the generator again and again.
StreamSpec ==
    /\ LockInit
    /\ [][NextStream]_vars
    /\ WF_vars(ThreadStep)
    /\ WF_vars(ReaderStep)

\* Calls of create_deal_for_invoice_item, one after the other.
DealSpec == LockInit /\ [][NextDeal]_vars

\* ------------------------------------------------------------ claims: lock

LockedRegion == {"body", "finished", "raised"}

C2_BodiesNeverOverlap == Cardinality(InBody) <= 1

\* C3: when job A has isRunning = true at the lock check of a run of another
\* job B, that run does not enter B's job function and leaves B's isRunning
\* as it was.
C3_BlockedRunLeavesJobUntouched ==
    [][\A r \in Runners :
          ( /\ pc[r] = "called"
            /\ pc'[r] # "called"
            /\ \E a \in Jobs : a # runnerJob[r] /\ isRunning[a] )
          => ( /\ pc'[r] \in {"skipped", "idle"}
               /\ isRunning'[runnerJob[r]] = isRunning[runnerJob[r]] )]_vars

\* C3 witness: a run of B was turned away while another job A is running.
C3_Witness ==
    \E r \in Runners, a \in Jobs :
        /\ pc[r] = "skipped" /\ outcome[r] = "blocked"
        /\ a # runnerJob[r] /\ isRunning[a] /\ ~isRunning[runnerJob[r]]

GroupOf(k) == {i \in RowIds : rows[i].gk = k}

\* Every result find_work_units can return in the current state.
Discoverable == UNION {{WorkUnits(ord) : ord \in Orderings(FetchedRows(limit))} :
                       limit \in LimitInputs}

UnitsIn(ws) == {ws[i] : i \in 1..Len(ws)}

\* A remote id that is absent: null or a placeholder.
Placeholder(a) == a \in {Null, "", "0", "1"}

\* No version row of the unit's group arrived after the unit was discovered.
GroupAsDiscovered(u) == \A i \in GroupOf(u.new_data_row.gk) : i <= discoveredUpTo

\* C5 (as claimed): immediately after a terminal finalize (SYNCED or FAILED) of
\* a work unit that find_work_units produced for a group of version rows,
\* exactly one row of that group has a status other than SUPERSEDED.
C5_OneRowNotSuperseded ==
    [][\A st \in {"SYNCED", "FAILED"}, a \in ApiIds :
          (FinalizeNext(st, a) /\ GroupAsDiscovered(units[cursor])) =>
              Cardinality({i \in GroupOf(units[cursor].new_data_row.gk) :
                              rows'[i].fetchStatus # "SUPERSEDED"}) = 1]_vars

\* C6: no result of find_work_units holds two work units whose
\* representatives share a grouping key.
C6_OneUnitPerGroupingKey ==
    \A ws \in Discoverable :
        \A i, j \in 1..Len(ws) :
            ws[i].new_data_row.gk = ws[j].new_data_row.gk => i = j

\* C6 witness: a call returned a unit for a group of several version rows.
C6_Witness ==
    \E i \in 1..Len(units) : Len(units[i].all_pks_in_group) >= 2

\* C7: find_work_units changes no version record, and its result does not
\* depend on the order in which the database returns the rows, so two calls
\* on the same store, filter and limit return the same work units.
C7_DiscoverReadOnlyIdempotent ==
    /\ [](\A limit \in LimitInputs :
            \A o1, o2 \in Orderings(FetchedRows(limit)) : WorkUnits(o1) = WorkUnits(o2))
    /\ [][(\E limit \in LimitInputs : FindWorkUnits(limit))
            => (rows' = rows /\ minIddFilter' = minIddFilter)]_vars

\* C7 witness: a call returned work units while the store holds two pending
\* version rows of one group, which the database may return in either order.
C7_Witness ==
    /\ units # <<>>
    /\ \E i, j \in RowIds :
          i # j /\ rows[i].gk = rows[j].gk /\ IsPending(rows[i]) /\ IsPending(rows[j])

\* C8 (as claimed): when any row of a group carries a non-null, non-placeholder
\* remote id, the group's work unit has action UPDATE and the remote id of the
\* highest-idd row of the group that has one.
C8_ValidIdInGroupGivesUpdate ==
    \A ws \in Discoverable : \A u \in UnitsIn(ws) :
        LET withId == {i \in GroupOf(u.new_data_row.gk) : ~Placeholder(rows[i].aid)}
        IN  withId # {} =>
              /\ u.action = "UPDATE"
              /\ u.asanito_id = rows[CHOOSE i \in withId : \A j \in withId : j <= i].aid

\* C9: when every remote id of a group is null or a placeholder, the group's
\* work unit has action CREATE and no remote id; and no work unit has action
\* UPDATE with a null or placeholder remote id.
C9_PlaceholdersGiveCreate ==
    \A ws \in Discoverable : \A u \in UnitsIn(ws) :
        /\ (\A i \in GroupOf(u.new_data_row.gk) : Placeholder(rows[i].aid))
              => (u.action = "CREATE" /\ u.asanito_id = Null)
        /\ u.action = "UPDATE" => ~Placeholder(u.asanito_id)

\* C9 witness: a call returned a CREATE unit for a group that holds
\* placeholder remote ids "0" and "1".
C9_Witness ==
    \E n \in 1..Len(units) :
        /\ units[n].action = "CREATE" /\ units[n].asanito_id = Null
        /\ \E i, j \in GroupOf(units[n].new_data_row.gk) :
              rows[i].aid = "0" /\ rows[j].aid = "1"

\* C10 (as claimed): finalize(unit, SKIPPED, m) changes exactly one row, the
\* representative, and of it only fetchStatus and fetchMessage.
C10_SkippedChangesOnlyRepresentative ==
    [][\A a \in ApiIds :
          FinalizeNext("SKIPPED", a) =>
              /\ FinalizeRowCount(units[cursor], "SKIPPED") = 1
              /\ \A i \in RowIds :
                    rows'[i] = IF i = units[cursor].new_data_row.idd
                               THEN [rows[i] EXCEPT !.fetchStatus = "SKIPPED",
                                                    !.fetchMessage = "error"]
                               ELSE rows[i]]_vars

\* ------------------------------------------------- claims: store, second part

\* C11 (as claimed): finalize(unit, SYNCED, asanito_id = r) affects exactly
\* len(all_pks_in_group) rows; afterwards the representative has status SYNCED
\* and remote id r, and every other row listed in all_pks_in_group has status
\* SUPERSEDED.
C11_SyncedFinalizeEffect ==
    [][\A a \in ApiIds :
          FinalizeNext("SYNCED", a) =>
              LET u == units[cursor]
              IN  /\ FinalizeRowCount(u, "SYNCED") = Len(u.all_pks_in_group)
                  /\ rows'[u.new_data_row.idd].fetchStatus = "SYNCED"
                  /\ rows'[u.new_data_row.idd].aid = a
                  /\ \A i \in RowIds :
                        (rows[i].pk \in PksOf(u) /\ i # u.new_data_row.idd)
                            => rows'[i].fetchStatus = "SUPERSEDED"]_vars

\* The watermark find_work_units applies.
Watermark == IntOf(minIddFilter)

\* C12: with a watermark w, every work unit find_work_units returns has a
\* representative with idd >= w; a group whose pending rows all have idd < w
\* yields no work unit; and a watermark above the table's highest idd yields
\* no work unit at all.
C12_WatermarkBoundsDiscovery ==
    HasIddFilter =>
        \A ws \in Discoverable :
            /\ \A u \in UnitsIn(ws) : u.new_data_row.idd >= Watermark
            /\ \A k \in Keys :
                  (\A i \in GroupOf(k) : IsPending(rows[i]) => i < Watermark)
                      => \A u \in UnitsIn(ws) : u.new_data_row.gk # k
            /\ Watermark > Len(rows) => ws = <<>>

\* C12 witness: a call under a watermark has just returned work units while
\* another group has its only pending row below the watermark.
C12_Witness ==
    /\ HasIddFilter
    /\ units # <<>> /\ cursor = 1 /\ discoveredUpTo = Len(rows)
    /\ \E k \in Keys :
          /\ \E i \in GroupOf(k) : IsPending(rows[i])
          /\ \A i \in GroupOf(k) : IsPending(rows[i]) => i < Watermark
          /\ \A n \in 1..Len(units) : units[n].new_data_row.gk # k

\* C13: a terminal finalize (SYNCED or FAILED) applied a second time with the
\* same unit, status, remote id and message leaves every row as the first
\* application left it.
C13_TerminalFinalizeIdempotent ==
    [][\A st \in {"SYNCED", "FAILED"}, a \in ApiIds :
          FinalizeNext(st, a) =>
              \A u \in {units[cursor]} :
                  (IF PksOf(u) = {} THEN rows
                   ELSE TerminalUpdate(u, st, IF st = "SYNCED" THEN a ELSE Null,
                                       IF st = "SYNCED" THEN Null ELSE "error"))' = rows']_vars

\* C13 witness: a group of two version rows has been finalized: one row
\* SYNCED with the id of the response, the other SUPERSEDED.
C13_Witness ==
    \E i, j \in RowIds :
        /\ i # j /\ rows[i].gk = rows[j].gk
        /\ rows[i].fetchStatus = "SYNCED" /\ rows[i].aid \in ApiIds
        /\ rows[j].fetchStatus = "SUPERSEDED"

\* ------------------------------------------------- claims: lock, second part

\* C20: a start of the process resets is_running and cancellation_requested
\* of every job, so every flag that is set belongs to a run of the current
\* process that is still inside job_wrapper's guarded region.
C20_StartResetsEveryJob ==
    /\ [](\A j \in Jobs :
            isRunning[j] => \E r \in Runners : runnerJob[r] = j /\ pc[r] \in LockedRegion)
    /\ [][ProcessRestart =>
            \A j \in Jobs : ~isRunning'[j] /\ ~cancellationRequested'[j]]_vars

\* C20 witness: the process was started with a lock left set, and a run has
\* acquired the lock since.
C20_Witness ==
    /\ lockedAtStart
    /\ \E r \in Runners : pc[r] = "body" /\ outcome[r] = "acquired"

\* ------------------------------------------------------------ claims: jobs

\* The units of the run whose processing has ended.
Handled == {i \in 1..Len(workUnits) : cause[i] # "none"}

\* C14 (as claimed): in every job, a unit whose remote call ended in a
\* network error or a 5xx response, or whose processing raised an exception
\* no except clause names, is finalized SKIPPED in that run.
C14_TransientErrorsAreSkipped ==
    \A i \in Handled : cause[i] \in {"net", "5xx", "exc"} => finalStatus[i] = "SKIPPED"

\* C15 (as claimed): in every job, a unit whose create or update request was
\* rejected with a 4xx response that was not taken as a stale update is
\* finalized FAILED in that run.
C15_ClientErrorsAreFailed ==
    \A i \in Handled : cause[i] = "4xx" => finalStatus[i] = "FAILED"

\* C16 (as claimed): in every job, a unit whose dependency is not synced or
\* whose required mapping is missing is finalized SKIPPED, never FAILED.
C16_DependencyAndMappingAreSkipped ==
    \A i \in Handled : cause[i] \in {"dep", "map"} => finalStatus[i] = "SKIPPED"

\* The requests that create or update the unit's remote entity.
IsEntityWrite(x) == x \in {"UPDATE", "CREATE"}

OneShotPatterns == {<<>>, <<"UPDATE">>, <<"CREATE">>, <<"UPDATE", "CREATE">>}

C18_NoUnitStartsAfterCancellation ==
    [][(jpc = "loop" /\ jpc' = "attempt" /\ unitIdx > 1)
          => ~cancellationRequested[RunJob]]_vars

\* C19: the final entry of a run that completed its unit loop is SUCCESS if
\* no unit was finalized FAILED in the run and FAILURE otherwise; skipped
\* units and an early stop on cancellation do not make it FAILURE.
C19_AuditReflectsFailedUnits ==
    jpc = "done" =>
        audit = (IF \E i \in 1..Len(workUnits) : finalStatus[i] = "FAILED"
                 THEN "FAILURE" ELSE "SUCCESS")

\* C19 witness: a run that was cancelled after a skipped unit, with a unit
\* left unprocessed, has written SUCCESS.
C19_Witness ==
    /\ jpc = "done" /\ audit = "SUCCESS"
    /\ cancellationRequested[RunJob]
    /\ \E i \in 1..Len(workUnits) : finalStatus[i] = "SKIPPED"
    /\ unitIdx <= Len(workUnits)

\* ------------------------------------------------- claims: lock, third part

\* C21: a run that the lock check turns away writes no audit entry, changes
\* no version record, and leaves is_running and cancellation_requested of
\* every job, the blocking job's included, as they were.
C21_RejectedRunChangesNothing ==
    [][\A r \in Runners :
          (pc[r] = "called" /\ pc'[r] = "skipped")
          => ( /\ isRunning' = isRunning
               /\ cancellationRequested' = cancellationRequested
               /\ rows' = rows
               /\ audit' = audit )]_vars

\* C21 witness: a run was turned away while the blocking job has a pending
\* cancellation request, which is still set.
C21_Witness ==
    \E r \in Runners, a \in Jobs :
        /\ pc[r] = "skipped" /\ outcome[r] = "blocked"
        /\ isRunning[a] /\ cancellationRequested[a]

\* C31: the acquiring update leaves the acquiring job's cancellation flag
\* unset; no step sets the flag of a job whose is_running is not set (a
\* terminate request for it changes nothing); hence a run is in its body with
\* its job's flag set only if it was already in its body one step before and
\* either the flag was set then or the step is a terminate request for its
\* job: the flag a run finds set was set while that run was in its body.
C31_StaleCancellationNeverStopsRun ==
    /\ [][\A r \in Runners : (pc[r] = "called" /\ pc'[r] = "body")
              => ~cancellationRequested'[runnerJob[r]]]_vars
    /\ [][\A j \in Jobs : ~isRunning[j]
              => /\ cancellationRequested'[j] => cancellationRequested[j]
                 /\ TerminateJob(j) => UNCHANGED vars]_vars
    /\ [][\A r \in Runners :
              (pc'[r] = "body" /\ cancellationRequested'[runnerJob'[r]])
                  => /\ pc[r] = "body"
                     /\ \/ cancellationRequested[runnerJob[r]]
                        \/ isRunning[runnerJob[r]] /\ TerminateJob(runnerJob[r])]_vars

\* C31 witness: a run is about to acquire the lock (no job is running) while
\* its job's flag is still set from a request made during an earlier run.
C31_Witness ==
    \E r \in Runners :
        /\ pc[r] = "called"
        /\ RunningJobs = {}
        /\ cancellationRequested[runnerJob[r]]

\* ------------------------------------------------- claims: store, third part

\* The newest version row of group k (0 when the group is empty).
NewestOf(k) == IF GroupOf(k) = {} THEN 0
               ELSE CHOOSE i \in GroupOf(k) : \A j \in GroupOf(k) : j <= i

\* C22 (as claimed): a group whose representative was finalized FAILED is not
\* emitted by any later find_work_units call until retry_failed_record
\* resets that row or a new version row of the group is inserted: while the
\* newest row of a group is FAILED, no result holds a unit of the group.
C22_FailedGroupNotRediscovered ==
    \A k \in Keys :
        (GroupOf(k) # {} /\ rows[NewestOf(k)].fetchStatus = "FAILED")
            => \A ws \in Discoverable : \A u \in UnitsIn(ws) : u.new_data_row.gk # k

\* The batch of a call with this limit reaches grouping key k.
BatchIncludes(limit, k) ==
    Cardinality({k2 \in PendingKeyCandidates : k2 < k}) < BatchSize(limit)

\* C23: a group whose representative was finalized SKIPPED stays open: with
\* no watermark and a batch that reaches its key, find_work_units emits the
\* group again with the same representative, as long as no newer row of the
\* group is pending.
C23_SkippedGroupStaysOpen ==
    ~HasIddFilter =>
        \A i \in RowIds :
            ( /\ rows[i].fetchStatus = "SKIPPED"
              /\ \A j \in GroupOf(rows[i].gk) : j > i => ~IsPending(rows[j]) )
            => \A limit \in LimitInputs :
                  BatchIncludes(limit, rows[i].gk)
                  => \A ord \in Orderings(FetchedRows(limit)) :
                        \E u \in UnitsIn(WorkUnits(ord)) : u.new_data_row = rows[i]

\* C23 witness: a run has just discovered a unit whose representative was
\* finalized SKIPPED by an earlier run.
C23_Witness ==
    /\ ~HasIddFilter /\ cursor = 1
    /\ \E n \in 1..Len(units) :
          /\ units[n].new_data_row.fetchStatus = "SKIPPED"
          /\ rows[units[n].new_data_row.idd] = units[n].new_data_row

\* C25 (as claimed): all_pks_in_group of every work unit holds the primary key
\* of every row of the table that shares the representative's grouping key,
\* also when an idd filter is set and rows of the group lie below it.
C25_AllKeysCoverGroup ==
    \A ws \in Discoverable : \A u \in UnitsIn(ws) :
        \A i \in GroupOf(u.new_data_row.gk) : rows[i].pk \in PksOf(u)

\* C26: the representative of every work unit is the row with the highest
\* idd among the rows of its group whose status is unset or SKIPPED; a row
\* with status SYNCED, FAILED, SUPERSEDED or IGNORED is never a
\* representative.
C26_RepresentativeIsNewestPending ==
    \A ws \in Discoverable : \A u \in UnitsIn(ws) :
        /\ u.new_data_row \in {rows[i] : i \in GroupOf(u.new_data_row.gk)}
        /\ u.new_data_row.fetchStatus \in {Null, "SKIPPED"}
        /\ \A i \in GroupOf(u.new_data_row.gk) :
              rows[i].fetchStatus \in {Null, "SKIPPED"} => i <= u.new_data_row.idd

\* C26 witness: a call returned a unit whose representative is an older row
\* of its group, the newer row having been ignored by the operator.
C26_Witness ==
    \E n \in 1..Len(units) : \E i \in GroupOf(units[n].new_data_row.gk) :
        /\ i > units[n].new_data_row.idd
        /\ rows[i].fetchStatus = "IGNORED"
        /\ rows[units[n].new_data_row.idd] = units[n].new_data_row

\* The results find_work_units can return for this limit.
ResultsOf(limit) == {WorkUnits(ord) : ord \in Orderings(FetchedRows(limit))}

\* The groups with a pending row that the idd filter lets through.
EligibleKeys ==
    {k \in Keys : \E i \in GroupOf(k) : IsPending(rows[i]) /\ PassesIddFilter(rows[i])}

\* C27 (as claimed): find_work_units returns at most batch_size work units
\* (200 without a limit), and the groups it returns are the eligible groups
\* with the smallest grouping keys.
C27_BatchOfSmallestEligibleKeys ==
    \A limit \in LimitInputs : \A ws \in ResultsOf(limit) :
        /\ Len(ws) <= BatchSize(limit)
        /\ {u.new_data_row.gk : u \in UnitsIn(ws)} = TopKeys(EligibleKeys, BatchSize(limit))

\* ------------------------------------------------- claims: store, fourth part

\* The row was put back to pending by retry_failed_record and not handled since.
Retried(i) ==
    rows[i].fetchStatus = Null /\ rows[i].fetchMessage = "Retrying as per user request"

\* C29 (as claimed): finalizing an UPDATE unit FAILED without an explicit
\* remote id writes the remote id the unit carried to the representative; and
\* once that row has been retried, every unit find_work_units returns for its
\* group has action UPDATE and that same remote id.
C29_FailedUpdateKeepsBinding ==
    /\ [][\A a \in ApiIds :
             (FinalizeNext("FAILED", a) /\ units[cursor].action = "UPDATE")
                 => rows'[units[cursor].new_data_row.idd].aid = units[cursor].asanito_id]_vars
    /\ [](\A i \in RowIds : (Retried(i) /\ ValidAid(rows[i].aid))
             => \A ws \in Discoverable : \A u \in UnitsIn(ws) :
                   u.new_data_row.gk = rows[i].gk
                       => (u.action = "UPDATE" /\ u.asanito_id = rows[i].aid))

\* C30 (as claimed): a terminal finalize (SYNCED or FAILED) leaves the remote
\* id of every row of the group other than the representative as it was, and
\* changes no row whose primary key is not in all_pks_in_group.
C30_TerminalFinalizeFrame ==
    [][\A st \in {"SYNCED", "FAILED"}, a \in ApiIds :
          FinalizeNext(st, a) =>
              LET u == units[cursor]
              IN  /\ \A i \in GroupOf(u.new_data_row.gk) \ {u.new_data_row.idd} :
                        rows'[i].aid = rows[i].aid
                  /\ \A i \in RowIds :
                        rows[i].pk \notin PksOf(u) => rows'[i] = rows[i]]_vars

\* ------------------------------------------------- claims: store, fifth part

Fields(r) == <<r.fetchStatus, r.fetchMessage, r.aid>>

\* The step is a finalize_work_unit call of the unit loop.
FinalizeStep ==
    \E st \in {"SYNCED", "FAILED", "SKIPPED"}, a \in ApiIds : FinalizeNext(st, a)

\* C34 (as claimed): a step that changes the status, the message or the
\* remote id of a version row is a finalize_work_unit call.
C34_OnlyFinalizerWrites ==
    [][(\E i \in RowIds : Fields(rows'[i]) # Fields(rows[i])) => FinalizeStep]_vars

\* How the operator's retry and ignore actions, single or bulk, and the
\* de-duplication job change the status of a row.
MaintenanceChange(old, new) ==
    \/ old.fetchStatus = "FAILED" /\ new.fetchStatus = Null
    \/ old.fetchStatus = "SKIPPED" /\ new.fetchStatus = "IGNORED"
    \/ old.fetchStatus = Null /\ new.fetchStatus = "SKIPPED" /\ table = "membership"

\* C34 (amended): the remote id of a version row is changed only by
\* finalize_work_unit; its status and message are changed only by
\* finalize_work_unit and by the maintenance operations, which take a FAILED
\* row to pending (retry), a SKIPPED row to IGNORED (ignore) or a membership
\* row without a status to SKIPPED (de-duplication), and leave rows in every
\* other status alone.
C34_OnlyFinalizerWritesAmended ==
    [][\A i \in RowIds :
          /\ rows'[i].aid # rows[i].aid => FinalizeStep
          /\ Fields(rows'[i]) # Fields(rows[i])
                => (FinalizeStep \/ MaintenanceChange(rows[i], rows'[i]))]_vars

\* C34 witness: a row with a remote id has been retried by the operator
\* and another row has been marked by the de-duplication job or ignored.
C34_Witness ==
    \E i, j \in RowIds :
        /\ rows[i].fetchStatus = Null
        /\ rows[i].fetchMessage \in {"Retrying as per user request",
                                      "Retrying all as per user request"}
        /\ ValidAid(rows[i].aid)
        /\ \/ rows[j].fetchMessage = DuplicateMessage("phone number")
           \/ rows[j].fetchStatus = "IGNORED"

\* The row carries the mark of the de-duplication job.
MarkedDuplicate(r) ==
    /\ r.fetchStatus = "SKIPPED"
    /\ r.fetchMessage \in {DuplicateMessage("phone number"), DuplicateMessage("national code")}

\* C38: no unit that the contacts job finalizes SYNCED (its record was
\* accepted by the remote system) has as its representative a membership row
\* that the de-duplication job marked SKIPPED as a duplicate.
C38_DuplicateNeverPushed ==
    [][\A a \in ApiIds :
          (cursor <= Len(units) /\ FinalizeNext("SYNCED", a))
              => ~MarkedDuplicate(units[cursor].new_data_row)]_vars

\* C35: no work unit that find_work_units returns has a representative
\* older (of lower idd) than a row of its group that is SYNCED.
C35_NoStaleOverwrite ==
    [][\A limit \in LimitInputs :
          FindWorkUnits(limit) =>
              \A n \in 1..Len(units') : \A i \in GroupOf(units'[n].new_data_row.gk) :
                  rows[i].fetchStatus = "SYNCED" => units'[n].new_data_row.idd >= rows[i].idd]_vars

\* C37: every SYNCED row carries a remote id that find_work_units treats as
\* valid, and a unit whose representative is a later version of a SYNCED row
\* of its group is an UPDATE.
C37_SyncedRowsGiveUpdate ==
    /\ [](\A i \in RowIds : rows[i].fetchStatus = "SYNCED" => ValidAid(rows[i].aid))
    /\ [][\A limit \in LimitInputs :
            FindWorkUnits(limit) =>
                \A n \in 1..Len(units') :
                    (\E i \in GroupOf(units'[n].new_data_row.gk) :
                        /\ rows[i].fetchStatus = "SYNCED"
                        /\ rows[i].idd < units'[n].new_data_row.idd)
                    => units'[n].action = "UPDATE"]_vars

\* Group k has a row without a status that the idd filter lets through.
HasPendingRow(k) ==
    \E i \in GroupOf(k) : rows[i].fetchStatus = Null /\ PassesIddFilter(rows[i])

\* The run in progress has a work unit for group k.
Emitted(k) == \E n \in 1..Len(units) : units[n].new_data_row.gk = k

\* C36: under repeated runs with a fixed batch size, a group that has a
\* pending row is eventually emitted as a work unit (or its pending row is
\* taken out of reach by the operator's filter).
C36_NoStarvation ==
    \A k \in Keys : HasPendingRow(k) ~> (Emitted(k) \/ ~HasPendingRow(k))

\* ------------------------------------------------------------- claims: run

\* The status, message and remote id of the representative of every unit the
\* run has finalized are as finalize_work_unit wrote them, in the table t.
FinalizedIntact(t) ==
    \A n \in 1..Len(written) :
        /\ t[written[n].idd].fetchStatus = written[n].fetchStatus
        /\ t[written[n].idd].fetchMessage = written[n].fetchMessage
        /\ t[written[n].idd].aid = written[n].aid

\* The step in which the outer except clause of run_job ends a failed run.
FailedRunEnds == rpc = "except" /\ rpc' = "returned"

\* C32 (as claimed): when a run fails at run level after k units were
\* finalized, what finalize_work_unit wrote for those units stays as written
\* and the run's last audit entry is a FAILURE entry.
C32_FailedRunKeepsFinalized ==
    [][FailedRunEnds =>
          /\ FinalizedIntact(rows')
          /\ auditLog' # <<>> /\ auditLog'[Len(auditLog')] = "FAILURE"]_vars

\* C32 (amended): when a run fails at run level after k units were finalized,
\* what finalize_work_unit wrote for those units stays as written all the
\* way through the outer except clause, and that clause adds a FAILURE entry
\* to the audit log, or nothing when writing the entry fails; the run never
\* gets a SUCCESS entry.
C32_FailedRunKeepsFinalizedAmended ==
    /\ [](rpc = "except" => FinalizedIntact(rows))
    /\ [][FailedRunEnds =>
             /\ FinalizedIntact(rows')
             /\ auditLog' \in {Append(auditLog, "FAILURE"), auditLog}
             /\ \A n \in 1..Len(auditLog) : auditLog[n] # "SUCCESS"]_vars

\* C32 witness: a run has failed at run level after it finalized a unit, and
\* its FAILURE entry is written.
C32_Witness ==
    /\ rpc = "returned"
    /\ Len(written) > 0
    /\ Len(written) < Len(units)
    /\ auditLog = <<"STARTED", "FAILURE">>
    /\ \A n \in 1..Len(written) : written[n].fetchStatus = "SYNCED"

\* The run has called find_work_units or sent a request to the remote API.
PastStart == rpc \in {"loop", "final"} \/ units # <<>> \/ remoteWrites > 0

\* job_wrapper has released, or is about to release, the lock of the run.
BodyOver == pc[RunRunner] \in {"finished", "raised", "released"}

TerminalEntries == {"SUCCESS", "FAILURE"}

\* C33 (as claimed): a run writes its STARTED entry before it discovers or
\* calls the remote API; when the lock is released the audit log of the run
\* is one STARTED entry followed by one terminal entry; and a run whose
\* find_work_units returned nothing ends with the entry SUCCESS and has sent
\* no write request.
C33_OneStartedOneTerminalEntry ==
    /\ [](PastStart => (auditLog # <<>> /\ auditLog[1] = "STARTED"))
    /\ [](BodyOver => \E t \in TerminalEntries : auditLog = <<"STARTED", t>>)
    /\ []((BodyOver /\ units = <<>>) => (auditLog = <<"STARTED", "SUCCESS">> /\ remoteWrites = 0))

\* C33 (amended): the STARTED entry is the first thing a run writes, before
\* it discovers or calls the remote API, and run_job raises only when that
\* write fails; the audit log of a run is never more than one STARTED entry
\* followed by one terminal entry; run_job returns, and the lock is released,
\* only after the terminal entry is written or after the write of the
\* FAILURE entry has failed; a run whose find_work_units returned nothing
\* sends no write request and the final entry it writes is SUCCESS.
C33_OneStartedOneTerminalEntryAmended ==
    /\ [](PastStart => (auditLog # <<>> /\ auditLog[1] = "STARTED"))
    /\ [](\/ auditLog = <<>>
          \/ auditLog = <<"STARTED">>
          \/ \E t \in TerminalEntries : auditLog = <<"STARTED", t>>)
    /\ [](rpc = "raised" => (auditLog = <<>> /\ ~PastStart))
    /\ [](BodyOver => rpc \in {"returned", "raised"})
    /\ [][(rpc # "returned" /\ rpc' = "returned")
             => \/ \E t \in TerminalEntries : auditLog' = <<"STARTED", t>>
                \/ rpc = "except" /\ auditLog' = <<"STARTED">>]_vars
    /\ [][(rpc = "final" /\ units = <<>>)
             => /\ remoteWrites = 0
                /\ rpc' = "returned" => auditLog' = <<"STARTED", "SUCCESS">>]_vars

\* C33 witness: the lock is released after a run that processed units, sent
\* a write request, and wrote its two entries.
C33_Witness ==
    /\ pc[RunRunner] = "released"
    /\ ~isRunning[RunJob]
    /\ Len(written) > 0
    /\ remoteWrites > 0
    /\ auditLog = <<"STARTED", "SUCCESS">>

\* The units of the run that the loop has not finalized: none before the
\* discover step, none after a loop that ran to its end.
Unprocessed ==
    IF rpc \in {"loop", "final", "except", "returned"} THEN cursor..Len(units) ELSE {}

\* The run has left its loop with units unprocessed: it saw the cancellation
\* request, or an exception took it to the outer except clause.
StoppedEarly == rpc \in {"final", "except", "returned"} /\ Unprocessed # {}

\* C39: from the discover step to the end of the run, no step changes a
\* version row of a unit that the loop has not finalized; and once the run has
\* stopped early, a find_work_units call returns a unit for the group of
\* every such unit that is within the batch of group keys it selects.
C39_StoppedRunIsResumable ==
    /\ [][\A n \in Unprocessed : n \in Unprocessed' /\ units' = units =>
             \A i \in RowIds : rows[i].pk \in PksOf(units[n]) => rows'[i] = rows[i]]_vars
    /\ [](StoppedEarly =>
             \A n \in Unprocessed : \A limit \in LimitInputs :
                 units[n].new_data_row.gk \in PendingKeys(limit) =>
                     \A ws \in ResultsOf(limit) :
                         \E u \in UnitsIn(ws) : u.new_data_row.gk = units[n].new_data_row.gk)

\* C39 witness: a cancelled run has ended after it finalized some of its
\* units and before it reached the others.
C39_Witness ==
    /\ rpc = "returned"
    /\ cancellationRequested[RunJob]
    /\ written # <<>>
    /\ Unprocessed # {}
    /\ auditLog = <<"STARTED", "SUCCESS">>

\* ---------------------------------------------------------- claims: stream

\* The places of the end-of-log marker in the queue's history.
MarkerAt == {i \in 1..Len(logQueue) : logQueue[i] = EndMarker}

StatusEvents == {i \in 1..Len(events) : events[i].event = "status"}

\* C40: for a manually triggered run the end-of-log marker is put on the
\* queue exactly once, by the time the thread ends and whether the run
\* returned, raised, was turned away by the lock or was not started; no record
\* of the run follows it; and the generator always comes to its end, having
\* read up to the marker and yielded one status event as its last event.
C40_MarkerOnceAndReaderEnds ==
    /\ [](Cardinality(MarkerAt) = IF spc \in {"marked", "done"} THEN 1 ELSE 0)
    /\ [](\A i \in MarkerAt : \A j \in (i + 1)..Len(logQueue) : logQueue[j] # OwnLine)
    /\ [](gpc = "closed" => /\ spc = "done"
                            /\ \E i \in MarkerAt : taken = i
                            /\ StatusEvents = {Len(events)})
    /\ [](gpc # "closed" => StatusEvents = {})
    /\ (gpc = "reading" ~> gpc = "closed")

\* C40 witness: the stream of a run that the lock turned away has ended,
\* after records of the run and of another thread were streamed.
C40_Witness ==
    /\ gpc = "closed"
    /\ outcome[StreamRunner] = "blocked"
    /\ \E i, j \in 1..Len(events) :
          /\ events[i] = [event |-> "message", data |-> OwnLine]
          /\ events[j] = [event |-> "message", data |-> OtherLine]

\* ---------------------------------------------------- claims: jobs, second part

\* The unit loop is inside the processing of a unit.
InUnit == {"attempt", "ancillary"}

\* C28 (as claimed): whatever ends the processing of a unit, an exception
\* raised while processing or finalizing it included, the run goes on: to
\* the top of the loop when units are left, to the final entry otherwise.
C28_UnitErrorNeverAbortsRun ==
    [][(jpc \in InUnit /\ jpc' \notin InUnit)
          => jpc' = (IF unitIdx < Len(workUnits) THEN "loop" ELSE "audit")]_vars

\* ------------------------------------------------------------ claims: deals

\* The deals created for item `item` of invoice `inv`.
DealsOf(inv, item) == {n \in 1..Len(deals) : deals[n] = <<inv, item>>}

====
